---------------------------- MODULE Spec2Model ----------------------------
(***************************************************************************)
(* A model of the orchestration core of windows_image_prep_gui.py: the     *)
(* generalization loop and its confirmation dialogs, the virtual-disk      *)
(* pipelines, the repository secret handling and the snapshot drive        *)
(* mapping.  Every subsystem has its own next-state relation and its own   *)
(* specification; the variables of the other subsystems stay at their      *)
(* initial values.                                                         *)
(***************************************************************************)
EXTENDS Integers, Sequences, FiniteSets, TLC

VARIABLES
    \* ---- generalization (start_generalization_thread, generalize_worker)
    gpc,            \* position of the GUI handler / the worker
    genButton,      \* state of self.generalize_button
    isAudit,        \* what check_audit_mode returned for this request
    warnYes,        \* answer to the first askyesno of show_audit_mode_warning
    entryText,      \* content of entry_var in the final-confirmation window
    confirmed,      \* confirmed[0] of show_audit_mode_warning
    attempt,        \* loop variable of the Sysprep loop
    sysprepRuns,    \* invocations of sysprep.exe by the running worker
    scanRuns,       \* invocations of the blocker scan
    removalRuns,    \* invocations of the removal command
    removalsOk,     \* removal commands that reported success
    blockers,       \* result of the latest blocker scan
    removalOk,      \* what the latest removal command reported
    outcome,        \* how the worker ended
    answerFile,     \* Unattend.xml as STEP 6 of the running worker left it
    \* ---- virtual disks (restore_repository_to_vhdx, perform_vhdx_creation_workflow)
    vpc,            \* position of the running workflow, "idle" between calls
    vresult,        \* what the workflow returned
    disk,           \* the virtual disk as the operating system has it
    vstages,        \* stages the running workflow has invoked, in order
    vfailed,        \* stages of the running workflow that reported failure
    lastCall,       \* the latest call of a virtual-disk method
    efiSizes,       \* EFI sizes made by partitioning scripts that ran to the end
    calls,          \* method calls made outside the workflows so far
    \* ---- repository secret (init_restic_repository, perform_restic_backup)
    rpc,            \* position of the running backup, "idle" between runs
    chained,        \* the run came through create_vss_restic_backup
    rresult,        \* what the run returned
    storedPw,       \* restic_password_<scope> in the config table
    repoPw,         \* the key of the repository at the target, empty if none
    env,            \* RESTIC_PASSWORD of the running function and where it came from
    genCount,       \* secrets generated so far
    reminder,       \* the password reminder window
    cmdLog,         \* restic commands of the current run, in order
    aiSeen,         \* init has reported an existing repository in this run
    lastEntered,    \* what the latest confirmation prompt of this run returned
    cancelLen,      \* length of cmdLog when the prompt was cancelled, -1 if not
    runs,           \* backup runs started so far
    shown,          \* reminder windows built so far
    pwFault,        \* the database or the window has failed in get_or_generate_repository_password
    pwLog,          \* log lines of the secret's functions so far
    failure,        \* why the current run returned False, "none" if it did not
    prompts,        \* confirmation prompts opened in the current run
    \* ---- shadow-copy drive mappings (create_vss_drive_mapping)
    realDrives,     \* letters that hold a volume
    substs,         \* letters substituted with subst
    substOk,        \* substituted letters whose target can be reached
    tempDirs,       \* letters whose C:\temp_vss_mount_<letter> exists
    junctions,      \* those of tempDirs that are junctions
    mapState,       \* "none", "returned" (create returned), "removed"
    mapRet,         \* what the latest create call returned
    mapTried,       \* strategies the latest create call ran, in order
    madeSubsts,     \* substitutions the latest create call made
    madeDirs,       \* directories and junctions the latest create call made
    rmCmds,         \* commands the latest remove call ran
    mapCalls,       \* create calls so far
    \* ---- shadow-copy path (get_vss_shadow_path)
    shpc,           \* position in get_vss_shadow_path, "idle" before the first call
    shAttempt,      \* loop variable of the vssadmin loop
    shPolls,        \* for each poll of the call, whether the backend gave the path
    shOut,          \* stdout of the latest poll
    shRet,          \* what the call returned
    shCalls,        \* calls so far
    \* ---- pipeline workers (start_dev_backup, start_vss_restic_creation_thread, start_vhdx_creation)
    wpc,            \* position of each worker thread, "off" before it is started
    wkind,          \* the pipeline each thread belongs to
    wtags,          \* backup_tags of perform_restic_backup in each thread
    currentBackupTags,\* self._current_backup_tags, NoTags if the attribute is missing
    builtBy,        \* for each tag list built so far, the thread that built it
    invoked,        \* backup commands started: the thread and the tag list
    vssButton,      \* state of vss_create_button and direct_create_button
    nextUuid,       \* backup-uuids generated so far
    \* ---- streaming runners (capture_with_dism, run_powershell, backup and restore streams)
    cmode,          \* "capture" (two pipes, two reader threads) or "merged" (one pipe)
    cpc,            \* position of the runner
    child,          \* the child process: "running", "exited", "killed"
    childRc,        \* the exit code the child ended with
    toWrite,        \* lines the child has yet to write
    pending,        \* the line the child is writing
    pipes,          \* content of the stdout pipe and the stderr pipe
    readers,        \* the reader threads of capture_with_dism
    queue,          \* output_queue
    stalledCount,   \* stalled_count
    criticalOn,     \* streams on which the child has written a critical line
    cresult,        \* what the runner returned
    chow,           \* what made the runner return
    \* ---- repository location
    locConfig,      \* the S3 configuration
    workflowMode,   \* config key workflow_mode ("none": not stored)
    devClient,      \* text of dev_client_var
    prodClient,     \* text of client_var
    locOps,         \* backups and secret operations so far
    locKept,        \* an earlier call of build_s3_repository_path
    locLast,        \* the latest call (forgotten when the operator changes an input)
    \* ---- create_vss_shadow_copy
    scpc,           \* where create_vss_shadow_copy is
    scCmds,         \* commands run in this call, in order
    scPs,           \* outcome of the PowerShell attempt of this call
    scVss,          \* outcome of the vssadmin attempt of this call
    scRet,          \* what the call returned
    scCalls,        \* calls so far
    \* ---- BitLocker decryption wait (generalize_worker, STEP 4)
    bpc,            \* position of the STEP 4 script
    volStatus,      \* VolumeStatus of every volume
    toDisable,      \* volumes of $encryptedVolumes not yet visited
    polls           \* evaluations of the while condition that found a decryption in progress

genVars == <<gpc, genButton, isAudit, warnYes, entryText, confirmed, attempt,
             sysprepRuns, scanRuns, removalRuns, removalsOk, blockers,
             removalOk, outcome, answerFile>>

vhdVars == <<vpc, vresult, disk, vstages, vfailed, lastCall, efiSizes, calls>>

repoVars == <<rpc, chained, rresult, storedPw, repoPw, env, genCount, reminder,
              cmdLog, aiSeen, lastEntered, cancelLen, runs, shown, pwFault, pwLog,
              failure, prompts>>

vssVars == <<realDrives, substs, substOk, tempDirs, junctions, mapState, mapRet,
             mapTried, madeSubsts, madeDirs, rmCmds, mapCalls>>

shVars == <<shpc, shAttempt, shPolls, shOut, shRet, shCalls>>

plVars == <<wpc, wkind, wtags, currentBackupTags, builtBy, invoked,
            vssButton, nextUuid>>

capVars == <<cmode, cpc, child, childRc, toWrite, pending, pipes, readers,
             queue, stalledCount, criticalOn, cresult, chow>>

locVars == <<locConfig, workflowMode, devClient, prodClient, locOps, locKept,
             locLast>>

scVars == <<scpc, scCmds, scPs, scVss, scRet, scCalls>>

blVars == <<bpc, volStatus, toDisable, polls>>

vars == <<genVars, vhdVars, repoVars, vssVars, shVars, plVars, capVars, locVars, scVars, blVars>>

nonGenVars == <<vhdVars, repoVars, vssVars, shVars, plVars, capVars, locVars, scVars, blVars>>
nonVhdVars == <<genVars, repoVars, vssVars, shVars, plVars, capVars, locVars, scVars, blVars>>
nonRepoVars == <<genVars, vhdVars, vssVars, shVars, plVars, capVars, locVars, scVars, blVars>>
nonVssVars == <<genVars, vhdVars, repoVars, shVars, plVars, capVars, locVars, scVars, blVars>>
nonShVars == <<genVars, vhdVars, repoVars, vssVars, plVars, capVars, locVars, scVars, blVars>>
nonPlVars == <<genVars, vhdVars, repoVars, vssVars, shVars, capVars, locVars, scVars, blVars>>
nonCapVars == <<genVars, vhdVars, repoVars, vssVars, shVars, plVars, locVars, scVars, blVars>>
nonLocVars == <<genVars, vhdVars, repoVars, vssVars, shVars, plVars, capVars, scVars, blVars>>
nonScVars == <<genVars, vhdVars, repoVars, vssVars, shVars, plVars, capVars, locVars, blVars>>
nonBlVars == <<genVars, vhdVars, repoVars, vssVars, shVars, plVars, capVars, locVars, scVars>>

(***************************************************************************)
(* Bounds of the model.                                                    *)
(***************************************************************************)
MaxText == 4
MaxOut == 3
MaxParts == 4
MaxCalls == 3
MaxPw == 2
MaxRuns == 2
MaxLetters == 2
MaxMapCalls == 3

(***************************************************************************)
(* Text helpers: Python's str.strip, str.upper and str.splitlines on       *)
(* strings modelled as sequences of characters.                            *)
(***************************************************************************)
IsSpace(c) == c \in {" ", "\n"}

RECURSIVE LStrip(_)
LStrip(s) ==
    IF s = <<>> THEN <<>>
    ELSE IF IsSpace(Head(s)) THEN LStrip(Tail(s)) ELSE s

RECURSIVE RStrip(_)
RStrip(s) ==
    IF s = <<>> THEN <<>>
    ELSE IF IsSpace(s[Len(s)]) THEN RStrip(SubSeq(s, 1, Len(s) - 1)) ELSE s

Strip(s) == RStrip(LStrip(s))

UpperChar(c) ==
    CASE c = "i" -> "I"
      [] c = "r" -> "R"
      [] OTHER -> c

Upper(s) == [i \in 1..Len(s) |-> UpperChar(s[i])]

FirstNewline(s) ==
    IF \E i \in 1..Len(s) : s[i] = "\n"
    THEN CHOOSE i \in 1..Len(s) : s[i] = "\n" /\ \A j \in 1..(i - 1) : s[j] # "\n"
    ELSE 0

RECURSIVE SplitLines(_)
SplitLines(s) ==
    IF s = <<>> THEN <<>>
    ELSE LET i == FirstNewline(s)
         IN  IF i = 0 THEN <<s>>
             ELSE <<SubSeq(s, 1, i - 1)>> \o SplitLines(SubSeq(s, i + 1, Len(s)))

SeqsUpTo(S, n) == UNION {[1..k -> S] : k \in 0..n}

(***************************************************************************)
(* Generalization: the confirmation dialogs.                               *)
(***************************************************************************)
\* The phrase the final-confirmation window compares with ("I UNDERSTAND THE
\* RISK", shortened to two letters around an inner blank).
Phrase == <<"I", " ", "R">>
EntryChars == {"i", "I", " ", "R"}

PhraseMatches_NoCheck(t) == TRUE
PhraseMatches(t) == Upper(Strip(t)) = Phrase

MaxAttempts == 10
MaxShadowLines == 2
MaxPathCalls == 2
MaxWorkers == 2
MaxPipe == 1
MaxWrites == 2
MaxLocOps == 2
MaxCreateCalls == 2
MaxVolumes == 2
MaxPolls == 3

IsLastAttempt_OffByOne(a) == a = MaxAttempts + 1
IsLastAttempt(a) == a = MaxAttempts

NoBlockers_Ignored(b) == FALSE
NoBlockers(b) == b = {}

RemovalAborts_Ignored(ok) == FALSE
RemovalAborts(ok) == ~ok

\* blockers = list(set(stdout.strip().splitlines()))
ParseBlockers(out) == {SplitLines(Strip(out))[i] : i \in 1..Len(SplitLines(Strip(out)))}

OutChars == {"A", "B", " ", "\n"}
ScanOutputs == SeqsUpTo(OutChars, MaxOut)

\* What the scan can give the loop: the blockers of every output text.
ScanResults == {ParseBlockers(out) : out \in ScanOutputs}

\* run_powershell: True on exit code 0, False on any other exit code or when
\* starting the process raises.
PsOutcomes == {"exit0", "exit1", "raises"}
RunPowershell(o) == o = "exit0"

GenResetCounters ==
    /\ attempt' = 0
    /\ sysprepRuns' = 0
    /\ scanRuns' = 0
    /\ removalRuns' = 0
    /\ removalsOk' = 0
    /\ blockers' = {}
    /\ removalOk' = TRUE
    /\ outcome' = "none"
    /\ answerFile' = "none"

GenCountersUnchanged ==
    UNCHANGED <<attempt, sysprepRuns, scanRuns, removalRuns, removalsOk,
                blockers, removalOk, outcome, answerFile>>

\* The windows of the handler are modal (messagebox, grab_set and
\* wait_window): while one is open the main window takes no click.
DialogOpen == gpc \in {"warn_yesno", "warn_phrase", "confirm"}

\* self.generalize_button.config(state="disabled") before the thread starts.
ButtonAtThreadStart_Normal == "normal"
ButtonAtThreadStart == "disabled"

\* The operator clicks "Prepare and Generalize System", which a button takes
\* only in its normal state; check_audit_mode reports audit or not.
StartGeneralization ==
    /\ ~DialogOpen
    /\ genButton = "normal"
    /\ \E a \in BOOLEAN :
          /\ isAudit' = a
          /\ gpc' = IF a THEN "confirm" ELSE "warn_yesno"
    /\ warnYes' = FALSE
    /\ entryText' = <<>>
    /\ confirmed' = FALSE
    /\ GenResetCounters
    /\ UNCHANGED genButton
    /\ UNCHANGED nonGenVars

\* show_audit_mode_warning: the askyesno of the critical warning.
AuditWarningAnswer ==
    /\ gpc = "warn_yesno"
    /\ \E yes \in BOOLEAN :
          /\ warnYes' = yes
          /\ gpc' = IF yes THEN "warn_phrase" ELSE "idle"
    /\ UNCHANGED <<genButton, isAudit, entryText, confirmed>>
    /\ GenCountersUnchanged
    /\ UNCHANGED nonGenVars

\* The operator edits the entry of the final-confirmation window.
TypeChar ==
    /\ gpc = "warn_phrase"
    /\ Len(entryText) < MaxText
    /\ \E c \in EntryChars : entryText' = Append(entryText, c)
    /\ UNCHANGED <<gpc, genButton, isAudit, warnYes, confirmed>>
    /\ GenCountersUnchanged
    /\ UNCHANGED nonGenVars

\* check_confirmation: the Confirm button or the Return key.
CheckConfirmation ==
    /\ gpc = "warn_phrase"
    /\ IF PhraseMatches(entryText)
       THEN /\ confirmed' = TRUE
            /\ gpc' = "confirm"
       ELSE /\ confirmed' = FALSE
            /\ gpc' = "warn_phrase"
    /\ UNCHANGED <<genButton, isAudit, warnYes, entryText>>
    /\ GenCountersUnchanged
    /\ UNCHANGED nonGenVars

\* cancel_confirmation, or closing the window: confirmed[0] stays False and
\* start_generalization_thread returns.
CancelConfirmation ==
    /\ gpc = "warn_phrase"
    /\ gpc' = "idle"
    /\ UNCHANGED <<genButton, isAudit, warnYes, entryText, confirmed>>
    /\ GenCountersUnchanged
    /\ UNCHANGED nonGenVars

\* The original "Confirm Generalization" askyesno; on yes the button is
\* disabled and the worker thread starts.
ConfirmGeneralization ==
    /\ gpc = "confirm"
    /\ \E yes \in BOOLEAN :
          IF yes
          THEN /\ genButton' = ButtonAtThreadStart
               /\ gpc' = "pre"
          ELSE /\ genButton' = genButton
               /\ gpc' = "idle"
    /\ UNCHANGED <<isAudit, warnYes, entryText, confirmed>>
    /\ GenCountersUnchanged
    /\ UNCHANGED nonGenVars

WorkerRunning == gpc \in {"pre", "clear", "sysprep", "settle", "scan", "remove"}

(***************************************************************************)
(* Generalization: the worker.                                             *)
(***************************************************************************)
\* STEP 6: an exception while Unattend.xml is written is logged and the
\* worker returns.
AnswerFileStops_Ignored(written) == FALSE
AnswerFileStops(written) == ~written

\* STEP 1 to STEP 6: the preparation commands (their results are ignored)
\* and the answer file; the worker returns when the file cannot be written.
GenPrepare ==
    /\ gpc = "pre"
    /\ \E written \in BOOLEAN :
          /\ answerFile' = IF written THEN "written" ELSE "failed"
          /\ IF AnswerFileStops(written)
             THEN /\ gpc' = "done"
                  /\ attempt' = attempt
                  /\ outcome' = "UnattendFailed"
                  /\ genButton' = "normal"
             ELSE /\ gpc' = "clear"
                  /\ attempt' = 1
                  /\ outcome' = outcome
                  /\ genButton' = genButton
    /\ UNCHANGED <<isAudit, warnYes, entryText, confirmed, sysprepRuns, scanRuns,
                   removalRuns, removalsOk, blockers, removalOk>>
    /\ UNCHANGED nonGenVars

\* Clearing the Panther logs before the attempt; the result is ignored.
GenClearLogs ==
    /\ gpc = "clear"
    /\ attempt \in 1..MaxAttempts
    /\ \E o \in PsOutcomes : gpc' = "sysprep"
    /\ UNCHANGED <<genButton, isAudit, warnYes, entryText, confirmed>>
    /\ GenCountersUnchanged
    /\ UNCHANGED nonGenVars

\* sysprep.exe /generalize /oobe /shutdown: it shuts the machine down, or
\* returns control, or cannot be started (the exception ends the worker).
GenRunSysprep ==
    /\ gpc = "sysprep"
    /\ sysprepRuns' = sysprepRuns + 1
    /\ \E r \in {"returns", "shutdown", "raises"} :
          CASE r = "returns" ->
                  /\ gpc' = "settle"
                  /\ outcome' = outcome
                  /\ genButton' = genButton
            [] r = "shutdown" ->
                  /\ gpc' = "shutdown"
                  /\ outcome' = "Shutdown"
                  /\ genButton' = genButton
            [] r = "raises" ->
                  /\ gpc' = "done"
                  /\ outcome' = "Exception"
                  /\ genButton' = "normal"
    /\ UNCHANGED <<isAudit, warnYes, entryText, confirmed, attempt, scanRuns,
                   removalRuns, removalsOk, blockers, removalOk, answerFile>>
    /\ UNCHANGED nonGenVars

\* sysprep.exe returned: the warning is logged and time.sleep(5) lets the
\* log files be written.
GenSettleWait ==
    /\ gpc = "settle"
    /\ gpc' = "scan"
    /\ UNCHANGED <<genButton, isAudit, warnYes, entryText, confirmed>>
    /\ GenCountersUnchanged
    /\ UNCHANGED nonGenVars

\* The scan of setuperr.log for AppX blockers.
GenScanLog ==
    /\ gpc = "scan"
    /\ scanRuns' = scanRuns + 1
    /\ \E found \in ScanResults :
          /\ blockers' = found
          /\ IF NoBlockers(found)
             THEN /\ gpc' = "done"
                  /\ outcome' = "NoBlockersFound"
                  /\ genButton' = "normal"
             ELSE /\ gpc' = "remove"
                  /\ outcome' = outcome
                  /\ genButton' = genButton
    /\ UNCHANGED <<isAudit, warnYes, entryText, confirmed, attempt, sysprepRuns,
                   removalRuns, removalsOk, removalOk, answerFile>>
    /\ UNCHANGED nonGenVars

\* The removal command for the blockers found, and the end of the iteration.
GenRemoveBlockers ==
    /\ gpc = "remove"
    /\ removalRuns' = removalRuns + 1
    /\ \E o \in PsOutcomes :
          /\ removalOk' = RunPowershell(o)
          /\ removalsOk' = IF RunPowershell(o) THEN removalsOk + 1 ELSE removalsOk
          /\ IF RemovalAborts(RunPowershell(o))
             THEN /\ gpc' = "done"
                  /\ outcome' = "RemovalFailed"
                  /\ genButton' = "normal"
                  /\ attempt' = attempt
             ELSE IF IsLastAttempt(attempt)
             THEN /\ gpc' = "done"
                  /\ outcome' = "MaxAttemptsReached"
                  /\ genButton' = "normal"
                  /\ attempt' = attempt
             ELSE IF attempt + 1 \in 1..MaxAttempts
             THEN /\ gpc' = "clear"
                  /\ outcome' = outcome
                  /\ genButton' = genButton
                  /\ attempt' = attempt + 1
             ELSE /\ gpc' = "done"
                  /\ outcome' = "LoopExhausted"
                  /\ genButton' = "normal"
                  /\ attempt' = attempt
    /\ UNCHANGED <<isAudit, warnYes, entryText, confirmed, sysprepRuns, scanRuns,
                   blockers, answerFile>>
    /\ UNCHANGED nonGenVars

(***************************************************************************)
(* Virtual disks: diskpart scripts.  A script is a sequence of commands;   *)
(* diskpart /s runs them in order and stops at the first command that      *)
(* fails, with a non-zero exit code.                                       *)
(***************************************************************************)
Cmd(op) == [op |-> op, kind |-> "", size |-> 0, fs |-> "", label |-> "", letter |-> ""]
Create(kind, size) == [Cmd("create") EXCEPT !.kind = kind, !.size = size]
Format(fs, label) == [Cmd("format") EXCEPT !.fs = fs, !.label = label]
Assign(letter) == [Cmd("assign") EXCEPT !.letter = letter]
CreateVdisk(sizeMB) == [Cmd("create_vdisk") EXCEPT !.size = sizeMB]

DiskSizesGB == {64, 256}

\* create_vhdx_file: maximum={size_gb * 1024}
CreateVhdxScript(sizeGB) == <<CreateVdisk(sizeGB * 1024)>>

\* create_dynamic_vhdx
CreateDynamicScript(sizeGB) == <<CreateVdisk(sizeGB * 1024), Cmd("exit")>>

\* initialize_vhdx_gpt
InitializeScript ==
    <<Cmd("select"), Cmd("attach"), Cmd("convert_gpt"),
      Create("efi", 100), Assign("s"), Format("fat32", "System"),
      Create("msr", 16),
      Create("primary", 0), Assign("w"), Format("ntfs", "Windows"),
      Cmd("active"), Cmd("detach")>>

\* mount_vhdx
MountScript == <<Cmd("select"), Cmd("attach"), Cmd("list")>>

\* mount_and_partition_vhdx
PartitionScript ==
    <<Cmd("select"), Cmd("attach"),
      Create("efi", 4096), Cmd("active"), Format("fat32", "EFI"), Assign("E"),
      Create("msr", 128),
      Create("primary", 4096), Format("ntfs", "Recovery"), Assign("R"),
      Create("primary", 0), Format("ntfs", "OS"), Assign("O"),
      Cmd("list"), Cmd("exit")>>

\* unmount_vhdx (both definitions run the same commands)
UnmountScript == <<Cmd("select"), Cmd("detach"), Cmd("exit")>>

NoDisk == [exists |-> FALSE, attached |-> FALSE, sizeMB |-> 0, parts |-> <<>>,
           pendingAttach |-> FALSE]

RECURSIVE SumSizes(_)
SumSizes(parts) ==
    IF parts = <<>> THEN 0 ELSE Head(parts).size + SumSizes(Tail(parts))

Remaining(d) == d.sizeMB - SumSizes(d.parts)

\* What diskpart refuses in the disk's state.
CmdMustFail(d, c) ==
    CASE c.op = "create_vdisk" -> d.exists
      [] c.op = "select" -> ~d.exists
      [] c.op = "attach" -> ~d.exists \/ d.attached
      [] c.op = "detach" -> ~d.attached
      [] c.op = "convert_gpt" -> ~d.attached \/ d.parts # <<>>
      [] c.op = "create" ->
            \/ ~d.attached
            \/ Len(d.parts) >= MaxParts
            \/ Remaining(d) <= 0
            \/ c.size > Remaining(d)
      [] c.op \in {"format", "assign", "active"} -> ~d.attached \/ d.parts = <<>>
      [] OTHER -> FALSE

SetLast(parts, field, v) == [parts EXCEPT ![Len(parts)][field] = v]

ApplyCmd(d, c) ==
    CASE c.op = "create_vdisk" ->
            [exists |-> TRUE, attached |-> FALSE, sizeMB |-> c.size, parts |-> <<>>,
             pendingAttach |-> d.pendingAttach]
      [] c.op = "attach" -> [d EXCEPT !.attached = TRUE, !.pendingAttach = TRUE]
      [] c.op = "detach" -> [d EXCEPT !.attached = FALSE]
      [] c.op = "create" ->
            [d EXCEPT !.parts = Append(d.parts,
                [kind |-> c.kind,
                 size |-> IF c.size = 0 THEN Remaining(d) ELSE c.size,
                 rest |-> c.size = 0,
                 fs |-> "", label |-> ""])]
      [] c.op = "format" ->
            [d EXCEPT !.parts = SetLast(SetLast(d.parts, "fs", c.fs), "label", c.label)]
      [] OTHER -> d

\* A detach command that diskpart reaches is a detach attempt, whatever its result.
Reached(d, c) == IF c.op = "detach" THEN [d EXCEPT !.pendingAttach = FALSE] ELSE d

\* Runs the script from command i; failAt is the command the environment makes
\* fail (0: none).
RECURSIVE RunFrom(_, _, _, _)
RunFrom(script, i, d, failAt) ==
    IF i > Len(script) THEN [disk |-> d, rc |-> 0]
    ELSE IF i = failAt \/ CmdMustFail(d, script[i])
         THEN [disk |-> Reached(d, script[i]), rc |-> 1]
         ELSE RunFrom(script, i + 1, ApplyCmd(Reached(d, script[i]), script[i]), failAt)

\* failAt = -1: the script file could not be written, the method's except
\* branch runs and diskpart is not started.
FailPoints(script) == (-1)..Len(script)

Diskpart(script, d, failAt) ==
    IF failAt = -1 THEN [disk |-> d, rc |-> 1, ranTool |-> FALSE]
    ELSE [disk |-> RunFrom(script, 1, d, failAt).disk,
          rc |-> RunFrom(script, 1, d, failAt).rc,
          ranTool |-> TRUE]

(***************************************************************************)
(* Virtual disks: the methods.  Each gives the disk afterwards, the value  *)
(* returned (ok) and whether diskpart was started.                         *)
(***************************************************************************)
\* create_vhdx_file: True iff diskpart's exit code is 0.
CreateVhdxFile(d, sizeGB, failAt) ==
    LET r == Diskpart(CreateVhdxScript(sizeGB), d, failAt)
    IN  [disk |-> r.disk, ok |-> r.rc = 0, ranTool |-> r.ranTool]

\* create_dynamic_vhdx: True iff the exit code is 0 and the file exists.
CreateDynamicVhdx(d, sizeGB, failAt) ==
    LET r == Diskpart(CreateDynamicScript(sizeGB), d, failAt)
    IN  [disk |-> r.disk, ok |-> r.rc = 0 /\ r.disk.exists, ranTool |-> r.ranTool]

InitializeVhdxGpt(d, failAt) ==
    LET r == Diskpart(InitializeScript, d, failAt)
    IN  [disk |-> r.disk, ok |-> r.rc = 0, ranTool |-> r.ranTool]

\* mount_vhdx: the mount point "W:\\" iff the exit code is 0 and the path exists.
MountVhdx(d, failAt, wExists) ==
    LET r == Diskpart(MountScript, d, failAt)
    IN  [disk |-> r.disk, ok |-> r.rc = 0 /\ wExists, ranTool |-> r.ranTool]

\* mount_and_partition_vhdx: "O" iff the exit code is 0.
MountAndPartitionVhdx(d, failAt) ==
    LET r == Diskpart(PartitionScript, d, failAt)
    IN  [disk |-> r.disk, ok |-> r.rc = 0, ranTool |-> r.ranTool]

\* unmount_vhdx: True iff the exit code is 0.
UnmountVhdx(d, failAt) ==
    LET r == Diskpart(UnmountScript, d, failAt)
    IN  [disk |-> IF r.ranTool THEN [r.disk EXCEPT !.pendingAttach = FALSE] ELSE r.disk,
         ok |-> r.rc = 0, ranTool |-> r.ranTool]

\* The class defines unmount_vhdx twice; the later definition (vhdx_path,
\* log_func) is the one in effect, and a call binds only with that many
\* arguments.
UnmountVhdxParams == 2
CallBinds(nargs) == nargs = UnmountVhdxParams

Role(p) ==
    IF p.kind = "efi" THEN "EFI"
    ELSE IF p.kind = "msr" THEN "MSR"
    ELSE IF p.label = "Recovery" THEN "Recovery"
    ELSE "OS"

Roles(parts) == [i \in 1..Len(parts) |-> Role(parts[i])]

EfiSizesOf(parts) == {parts[i].size : i \in {j \in 1..Len(parts) : parts[j].kind = "efi"}}

NoCall == [op |-> "none", preExists |-> FALSE, preAttached |-> FALSE, preParts |-> 0,
           ranTool |-> FALSE, ok |-> FALSE, made |-> <<>>]

\* The record of a call: the disk's state before it, whether diskpart was
\* started, the result, and the partitions a successful call created.
Called(op, d, r) ==
    [op |-> op, preExists |-> d.exists, preAttached |-> d.attached,
     preParts |-> Len(d.parts), ranTool |-> r.ranTool, ok |-> r.ok,
     made |-> IF r.ok THEN SubSeq(r.disk.parts, Len(d.parts) + 1, Len(r.disk.parts))
              ELSE <<>>]

PartitioningDone(op, d, r) ==
    IF r.ok THEN efiSizes \cup EfiSizesOf(Called(op, d, r).made) ELSE efiSizes

InitVhd ==
    /\ vpc = "idle"
    /\ vresult = "none"
    /\ disk = NoDisk
    /\ vstages = <<>>
    /\ vfailed = {}
    /\ lastCall = NoCall
    /\ efiSizes = {}
    /\ calls = 0

(***************************************************************************)
(* Virtual disks: the methods called one at a time by a caller, in any     *)
(* order, while no workflow runs.                                          *)
(***************************************************************************)
CallCreateVhdxFile ==
    /\ vpc = "idle"
    /\ calls < MaxCalls
    /\ calls' = calls + 1
    /\ \E gb \in DiskSizesGB : \E f \in FailPoints(CreateVhdxScript(gb)) :
          /\ disk' = CreateVhdxFile(disk, gb, f).disk
          /\ lastCall' = Called("create_vhdx_file", disk, CreateVhdxFile(disk, gb, f))
    /\ UNCHANGED <<vpc, vresult, vstages, vfailed, efiSizes>>
    /\ UNCHANGED nonVhdVars

CallInitializeVhdxGpt ==
    /\ vpc = "idle"
    /\ calls < MaxCalls
    /\ calls' = calls + 1
    /\ \E f \in FailPoints(InitializeScript) :
          /\ disk' = InitializeVhdxGpt(disk, f).disk
          /\ lastCall' = Called("initialize_vhdx_gpt", disk, InitializeVhdxGpt(disk, f))
          /\ efiSizes' = PartitioningDone("initialize_vhdx_gpt", disk, InitializeVhdxGpt(disk, f))
    /\ UNCHANGED <<vpc, vresult, vstages, vfailed>>
    /\ UNCHANGED nonVhdVars

CallMountVhdx ==
    /\ vpc = "idle"
    /\ calls < MaxCalls
    /\ calls' = calls + 1
    /\ \E f \in FailPoints(MountScript) : \E w \in BOOLEAN :
          /\ disk' = MountVhdx(disk, f, w).disk
          /\ lastCall' = Called("mount_vhdx", disk, MountVhdx(disk, f, w))
    /\ UNCHANGED <<vpc, vresult, vstages, vfailed, efiSizes>>
    /\ UNCHANGED nonVhdVars

CallMountAndPartitionVhdx ==
    /\ vpc = "idle"
    /\ calls < MaxCalls
    /\ calls' = calls + 1
    /\ \E f \in FailPoints(PartitionScript) :
          /\ disk' = MountAndPartitionVhdx(disk, f).disk
          /\ lastCall' = Called("mount_and_partition_vhdx", disk, MountAndPartitionVhdx(disk, f))
          /\ efiSizes' = PartitioningDone("mount_and_partition_vhdx", disk,
                                          MountAndPartitionVhdx(disk, f))
    /\ UNCHANGED <<vpc, vresult, vstages, vfailed>>
    /\ UNCHANGED nonVhdVars

CallUnmountVhdx ==
    /\ vpc = "idle"
    /\ calls < MaxCalls
    /\ calls' = calls + 1
    /\ \E f \in FailPoints(UnmountScript) :
          /\ disk' = UnmountVhdx(disk, f).disk
          /\ lastCall' = Called("unmount_vhdx", disk, UnmountVhdx(disk, f))
    /\ UNCHANGED <<vpc, vresult, vstages, vfailed, efiSizes>>
    /\ UNCHANGED nonVhdVars

(***************************************************************************)
(* restore_repository_to_vhdx.                                             *)
(***************************************************************************)
\* The workflow makes a new, timestamped file name: its disk does not exist yet.
StartRestoreToVhdx ==
    /\ vpc = "idle"
    /\ vpc' = "r_create"
    /\ vresult' = "none"
    /\ disk' = NoDisk
    /\ vstages' = <<>>
    /\ vfailed' = {}
    /\ lastCall' = NoCall
    /\ UNCHANGED efiSizes
    /\ UNCHANGED nonVhdVars
    /\ UNCHANGED calls

\* Step 1: create_vhdx_file, return None on failure.
RestoreCreate ==
    /\ vpc = "r_create"
    /\ \E gb \in DiskSizesGB : \E f \in FailPoints(CreateVhdxScript(gb)) :
          LET r == CreateVhdxFile(disk, gb, f)
          IN  /\ disk' = r.disk
              /\ lastCall' = Called("create_vhdx_file", disk, r)
              /\ vpc' = IF r.ok THEN "r_init" ELSE "r_done"
              /\ vresult' = IF r.ok THEN vresult ELSE "None"
    /\ vstages' = Append(vstages, "create")
    /\ vfailed' = IF lastCall'.ok THEN vfailed ELSE vfailed \cup {"create"}
    /\ UNCHANGED efiSizes
    /\ UNCHANGED nonVhdVars
    /\ UNCHANGED calls

\* Step 2: initialize_vhdx_gpt, return None on failure.
RestoreInitialize ==
    /\ vpc = "r_init"
    /\ \E f \in FailPoints(InitializeScript) :
          LET r == InitializeVhdxGpt(disk, f)
          IN  /\ disk' = r.disk
              /\ lastCall' = Called("initialize_vhdx_gpt", disk, r)
              /\ efiSizes' = PartitioningDone("initialize_vhdx_gpt", disk, r)
              /\ vpc' = IF r.ok THEN "r_mount" ELSE "r_done"
              /\ vresult' = IF r.ok THEN vresult ELSE "None"
    /\ vstages' = Append(vstages, "initialize")
    /\ vfailed' = IF lastCall'.ok THEN vfailed ELSE vfailed \cup {"initialize"}
    /\ UNCHANGED nonVhdVars
    /\ UNCHANGED calls

\* Step 3: mount_vhdx, return None when it gives no mount point.
RestoreMount ==
    /\ vpc = "r_mount"
    /\ \E f \in FailPoints(MountScript) : \E w \in BOOLEAN :
          LET r == MountVhdx(disk, f, w)
          IN  /\ disk' = r.disk
              /\ lastCall' = Called("mount_vhdx", disk, r)
              /\ vpc' = IF r.ok THEN "r_restore" ELSE "r_done"
              /\ vresult' = IF r.ok THEN vresult ELSE "None"
    /\ vstages' = Append(vstages, "mount")
    /\ vfailed' = IF lastCall'.ok THEN vfailed ELSE vfailed \cup {"mount"}
    /\ UNCHANGED efiSizes
    /\ UNCHANGED nonVhdVars
    /\ UNCHANGED calls

\* Step 4, inside try/finally: restore_restic_to_mount; the value to return
\* is the path on success and None on failure.
RestoreRestic ==
    /\ vpc = "r_restore"
    /\ \E ok \in BOOLEAN :
          /\ vresult' = IF ok THEN "path" ELSE "None"
          /\ vfailed' = IF ok THEN vfailed ELSE vfailed \cup {"restore"}
    /\ vpc' = "r_finally"
    /\ vstages' = Append(vstages, "restore")
    /\ UNCHANGED <<disk, lastCall, efiSizes>>
    /\ UNCHANGED nonVhdVars
    /\ UNCHANGED calls

\* The finally clause: self.unmount_vhdx(vhdx_path), one argument.  A call
\* that does not bind raises TypeError, which replaces the pending return
\* value and is caught by the outer except: the method returns None.
RestoreFinally ==
    /\ vpc = "r_finally"
    /\ IF CallBinds(1)
       THEN \E f \in FailPoints(UnmountScript) :
               /\ disk' = UnmountVhdx(disk, f).disk
               /\ lastCall' = Called("unmount_vhdx", disk, UnmountVhdx(disk, f))
               /\ vresult' = vresult
               /\ vstages' = Append(vstages, "unmount")
               /\ vfailed' = IF UnmountVhdx(disk, f).ok
                             THEN vfailed ELSE vfailed \cup {"unmount"}
       ELSE /\ disk' = disk
            /\ lastCall' = lastCall
            /\ vresult' = "None"
            /\ vstages' = vstages
            /\ vfailed' = vfailed
    /\ vpc' = "r_done"
    /\ UNCHANGED efiSizes
    /\ UNCHANGED nonVhdVars
    /\ UNCHANGED calls

\* restore_repository_to_vhdx catches every Exception and returns None: the
\* call in restore_thread raises for no result.
RestoreCallRaises(result) == FALSE

\* restore_thread of restore_image_to_vhdx, after the call: the value is
\* logged as restored and restore_complete is scheduled; restore_failed is
\* scheduled by the except clause around the call.
RestoreThreadEnds ==
    /\ vpc = "r_done"
    /\ vpc' = IF RestoreCallRaises(vresult) THEN "restore_failed" ELSE "restore_complete"
    /\ UNCHANGED <<vresult, disk, vstages, vfailed, lastCall, efiSizes>>
    /\ UNCHANGED nonVhdVars
    /\ UNCHANGED calls

(***************************************************************************)
(* perform_vhdx_creation_workflow.                                         *)
(***************************************************************************)
\* The operator names the file: it may be a new name or that of the disk of
\* an earlier call.
StartVhdxCreation ==
    /\ vpc = "idle"
    /\ vpc' = "c_create"
    /\ vresult' = "none"
    /\ \E fresh \in BOOLEAN :
          disk' = IF fresh THEN NoDisk ELSE [disk EXCEPT !.pendingAttach = FALSE]
    /\ vstages' = <<>>
    /\ vfailed' = {}
    /\ lastCall' = NoCall
    /\ UNCHANGED efiSizes
    /\ UNCHANGED nonVhdVars
    /\ UNCHANGED calls

\* Step 1: create_dynamic_vhdx; a failure raises, the except returns False.
CreationCreate ==
    /\ vpc = "c_create"
    /\ \E gb \in DiskSizesGB : \E f \in FailPoints(CreateDynamicScript(gb)) :
          LET r == CreateDynamicVhdx(disk, gb, f)
          IN  /\ disk' = r.disk
              /\ lastCall' = Called("create_dynamic_vhdx", disk, r)
              /\ vpc' = IF r.ok THEN "c_partition" ELSE "c_done"
              /\ vresult' = IF r.ok THEN vresult ELSE "False"
    /\ vstages' = Append(vstages, "create")
    /\ vfailed' = IF lastCall'.ok THEN vfailed ELSE vfailed \cup {"create"}
    /\ UNCHANGED efiSizes
    /\ UNCHANGED nonVhdVars
    /\ UNCHANGED calls

\* Step 2: mount_and_partition_vhdx.
CreationPartition ==
    /\ vpc = "c_partition"
    /\ \E f \in FailPoints(PartitionScript) :
          LET r == MountAndPartitionVhdx(disk, f)
          IN  /\ disk' = r.disk
              /\ lastCall' = Called("mount_and_partition_vhdx", disk, r)
              /\ efiSizes' = PartitioningDone("mount_and_partition_vhdx", disk, r)
              /\ vpc' = IF r.ok THEN "c_restore" ELSE "c_done"
              /\ vresult' = IF r.ok THEN vresult ELSE "False"
    /\ vstages' = Append(vstages, "partition")
    /\ vfailed' = IF lastCall'.ok THEN vfailed ELSE vfailed \cup {"partition"}
    /\ UNCHANGED nonVhdVars
    /\ UNCHANGED calls

\* Step 3: restore_repository_to_vhdx_partition.
CreationRestore ==
    /\ vpc = "c_restore"
    /\ \E ok \in BOOLEAN :
          /\ vpc' = IF ok THEN "c_unmount" ELSE "c_done"
          /\ vresult' = IF ok THEN vresult ELSE "False"
          /\ vfailed' = IF ok THEN vfailed ELSE vfailed \cup {"restore"}
    /\ vstages' = Append(vstages, "restore")
    /\ UNCHANGED <<disk, lastCall, efiSizes>>
    /\ UNCHANGED nonVhdVars
    /\ UNCHANGED calls

\* if not self.unmount_vhdx(...): only a warning is logged, nothing is raised.
UnmountFailureRaises_LikeOtherStages(ok) == ~ok
UnmountFailureRaises(ok) == FALSE

\* Step 4: self.unmount_vhdx(vhdx_path, log_func), two arguments; a False
\* result is logged as a warning and the workflow goes on.
CreationUnmount ==
    /\ vpc = "c_unmount"
    /\ IF CallBinds(2)
       THEN \E f \in FailPoints(UnmountScript) :
               /\ disk' = UnmountVhdx(disk, f).disk
               /\ lastCall' = Called("unmount_vhdx", disk, UnmountVhdx(disk, f))
               /\ IF UnmountFailureRaises(UnmountVhdx(disk, f).ok)
                  THEN vpc' = "c_done" /\ vresult' = "False"
                  ELSE vpc' = "c_vm" /\ vresult' = vresult
               /\ vstages' = Append(vstages, "unmount")
               /\ vfailed' = IF UnmountVhdx(disk, f).ok
                             THEN vfailed ELSE vfailed \cup {"unmount"}
       ELSE /\ disk' = disk
            /\ lastCall' = lastCall
            /\ vpc' = "c_done"
            /\ vresult' = "False"
            /\ vstages' = vstages
            /\ vfailed' = vfailed
    /\ UNCHANGED efiSizes
    /\ UNCHANGED nonVhdVars
    /\ UNCHANGED calls

\* Step 5: create_hyperv_vm.
CreationVm ==
    /\ vpc = "c_vm"
    /\ \E ok \in BOOLEAN :
          /\ vresult' = IF ok THEN "True" ELSE "False"
          /\ vfailed' = IF ok THEN vfailed ELSE vfailed \cup {"vm"}
    /\ vpc' = "c_done"
    /\ vstages' = Append(vstages, "vm")
    /\ UNCHANGED <<disk, lastCall, efiSizes>>
    /\ UNCHANGED nonVhdVars
    /\ UNCHANGED calls

\* The workflow has returned and its dialog has ended; the next call may
\* begin.
WorkflowReturned ==
    /\ vpc \in {"restore_complete", "restore_failed", "c_done"}
    /\ vpc' = "idle"
    /\ UNCHANGED <<vresult, disk, vstages, vfailed, lastCall, efiSizes>>
    /\ UNCHANGED nonVhdVars
    /\ UNCHANGED calls

NextVhdCalls ==
    \/ CallCreateVhdxFile
    \/ CallInitializeVhdxGpt
    \/ CallMountVhdx
    \/ CallMountAndPartitionVhdx
    \/ CallUnmountVhdx

NextVhd ==
    \/ StartRestoreToVhdx
    \/ RestoreCreate
    \/ RestoreInitialize
    \/ RestoreMount
    \/ RestoreRestic
    \/ RestoreFinally
    \/ RestoreThreadEnds
    \/ StartVhdxCreation
    \/ CreationCreate
    \/ CreationPartition
    \/ CreationRestore
    \/ CreationUnmount
    \/ CreationVm
    \/ WorkflowReturned

InitGen ==
    /\ gpc = "idle"
    /\ genButton = "normal"
    /\ isAudit = FALSE
    /\ warnYes = FALSE
    /\ entryText = <<>>
    /\ confirmed = FALSE
    /\ attempt = 0
    /\ sysprepRuns = 0
    /\ scanRuns = 0
    /\ removalRuns = 0
    /\ removalsOk = 0
    /\ blockers = {}
    /\ removalOk = TRUE
    /\ outcome = "none"
    /\ answerFile = "none"

NextGen ==
    \/ StartGeneralization
    \/ AuditWarningAnswer
    \/ TypeChar
    \/ CheckConfirmation
    \/ CancelConfirmation
    \/ ConfirmGeneralization
    \/ GenPrepare
    \/ GenClearLogs
    \/ GenRunSysprep
    \/ GenSettleWait
    \/ GenScanLog
    \/ GenRemoveBlockers

(***************************************************************************)
(* The repository secret: get_or_generate_repository_password, the         *)
(* reminder window, the confirmation prompt, and the restic commands of    *)
(* init_restic_repository and perform_restic_backup.  A secret is a        *)
(* sequence of characters; the empty sequence stands for None and "".      *)
(***************************************************************************)
NoSecret == <<>>

\* db.generate_secure_password: 16 characters drawn with secrets.choice from
\* letters, digits and "!@#$%^&*"; the n-th generated secret is a value of
\* its own and holds no whitespace.
GenSecret(n) == [i \in 1..n |-> "G"]

PwChars == {"A", "B", "G", " "}
PromptTexts == SeqsUpTo(PwChars, MaxPw)

NoEnv == [pw |-> NoSecret, src |-> "none"]

\* env['RESTIC_PASSWORD'] = confirmed_password
EnvAfterConfirm_Kept(e, confirmedPw) == e

EnvAfterConfirm(e, confirmedPw) == [pw |-> confirmedPw, src |-> "entered"]

\* A log line: its fixed text and what is formatted into it.
LogLine(text, arg) == [text |-> text, arg |-> arg]

\* The text is part of the line.
RECURSIVE HasPart(_, _)
HasPart(arg, part) ==
    /\ part # <<>>
    /\ Len(arg) >= Len(part)
    /\ \/ SubSeq(arg, 1, Len(part)) = part
       \/ HasPart(Tail(arg), part)

\* str(e) of the exceptions of the database and of the window toolkit.
ExceptionTexts == { <<"database is locked">> }

UsingLine == LogLine("INFO: Using existing repository password", <<>>)

GeneratingLine == LogLine("INFO: Generating new secure repository password...", <<>>)

\* The line logged once the new secret pw has been stored and shown.
GeneratedLine_WithSecret(pw) == LogLine("SUCCESS: Repository password generated and stored", pw)

GeneratedLine(pw) == LogLine("SUCCESS: Repository password generated and stored", <<>>)

FailedLine(e) == LogLine("ERROR: Failed to get or generate repository password: ", e)

\* The stderr of "restic init", or str(e), is formatted into the line.
InitFailedLine(e) == LogLine("ERROR: Repository initialization failed: ", e)

ReminderFailedLine(e) == LogLine("ERROR: Failed to show password reminder: ", e)

\* What get_or_generate_repository_password can do in the current state:
\* the value it returns, where the value came from, what it leaves in the
\* config table and on the screen, and what it logs.  An exception of the
\* database, before or after the generation, is logged and gives None.
\* show_repository_password_reminder builds the window and returns at once
\* (it has no wait_window), and an exception while building it is logged
\* and swallowed.
GetOrGenerateOutcomes ==
    LET new == GenSecret(genCount + 1)
        failed == {[ret |-> NoSecret, src |-> "none", stored |-> storedPw,
                    rem |-> reminder, gen |-> genCount, shown |-> shown, fault |-> TRUE,
                    log |-> {FailedLine(e)}] : e \in ExceptionTexts}
    IN  failed \cup
        IF storedPw # NoSecret
        THEN {[ret |-> storedPw, src |-> "stored", stored |-> storedPw,
               rem |-> reminder, gen |-> genCount, shown |-> shown, fault |-> FALSE,
               log |-> {UsingLine}]}
        ELSE {[ret |-> NoSecret, src |-> "none", stored |-> storedPw,
               rem |-> reminder, gen |-> genCount + 1, shown |-> shown, fault |-> TRUE,
               log |-> {GeneratingLine, FailedLine(e)}] : e \in ExceptionTexts}
             \cup {[ret |-> new, src |-> "generated", stored |-> new,
                    rem |-> "open", gen |-> genCount + 1, shown |-> shown + 1,
                    fault |-> FALSE,
                    log |-> {GeneratingLine, GeneratedLine(new)}]}
             \cup {[ret |-> new, src |-> "generated", stored |-> new,
                    rem |-> reminder, gen |-> genCount + 1, shown |-> shown,
                    fault |-> TRUE,
                    log |-> {GeneratingLine, ReminderFailedLine(e), GeneratedLine(new)}]
                   : e \in ExceptionTexts}

\* stderr of "restic init", by what the test on it sees.
StderrExisting == "Fatal: create key in repository failed: repository master key and config already initialized"
StderrConfigExists == "Fatal: create repository failed: config file already exists"
StderrOther == "Fatal: unable to open repository"

\* "already initialized" in init_proc.stderr
ReportsAlreadyInitialized(stderr) == stderr = StderrExisting

\* Outcomes of "restic init": it creates the repository only where there is
\* none, and an exception of subprocess.run is the outcome "raise".
ResticInitOutcomes ==
    IF repoPw = NoSecret
    THEN {[rc |-> 0, stderr |-> ""], [rc |-> 1, stderr |-> StderrOther], [rc |-> -1, stderr |-> "raise"]}
    ELSE {[rc |-> 1, stderr |-> StderrExisting], [rc |-> 1, stderr |-> StderrConfigExists],
          [rc |-> 1, stderr |-> StderrOther], [rc |-> -1, stderr |-> "raise"]}

\* Exit codes of "restic snapshots": 0 only with the repository's key.
ResticSnapshotsOutcomes == IF env.pw = repoPw /\ repoPw # NoSecret THEN {0, 1} ELSE {1}

\* Exit codes of "restic backup".
ResticBackupOutcomes == IF env.pw = repoPw /\ repoPw # NoSecret THEN {0, 1} ELSE {1}

Logged(cmd, rc) == [cmd |-> cmd, pw |-> env.pw, src |-> env.src, ai |-> aiSeen,
                    entered |-> lastEntered, rc |-> rc]

RepoFinish(res, why) ==
    /\ rpc' = "done"
    /\ rresult' = res
    /\ failure' = why

\* The state before the first run: what the config table holds for the scope
\* and which key the repository at the target has.
RepoStart(stored, repo) ==
    /\ rpc = "idle"
    /\ chained = FALSE
    /\ rresult = "none"
    /\ storedPw = stored
    /\ repoPw = repo
    /\ env = NoEnv
    /\ genCount = 0
    /\ reminder = "none"
    /\ cmdLog = <<>>
    /\ aiSeen = FALSE
    /\ lastEntered = NoSecret
    /\ cancelLen = -1
    /\ runs = 0
    /\ shown = 0
    /\ pwFault = FALSE
    /\ pwLog = {}
    /\ failure = "none"
    /\ prompts = 0

\* A machine that has never run a backup, against an empty target.
InitRepo == RepoStart(NoSecret, NoSecret)

\* A run may also find a stored secret, and a repository made earlier or by
\* another machine, with the same key or another one.
InitRepoAny ==
    \E stored \in {NoSecret, <<"A">>}, repo \in {NoSecret, <<"A">>, <<"B">>} :
        RepoStart(stored, repo)

RepoRunReset ==
    /\ rpc \in {"idle", "done"}
    /\ runs < MaxRuns
    /\ runs' = runs + 1
    /\ rresult' = "none"
    /\ env' = NoEnv
    /\ cmdLog' = <<>>
    /\ aiSeen' = FALSE
    /\ lastEntered' = NoSecret
    /\ cancelLen' = -1
    /\ failure' = "none"
    /\ prompts' = 0
    /\ UNCHANGED <<storedPw, repoPw, genCount, reminder>>

\* create_vss_restic_backup up to its call of init_restic_repository;
\* validate_backup_config or download_restic failing returns False.
StartCreateVssResticBackup ==
    /\ RepoRunReset
    /\ chained' = TRUE
    /\ \E ready \in BOOLEAN : rpc' = IF ready THEN "i_getpw" ELSE "done"
    /\ UNCHANGED <<shown, pwFault, pwLog>>
    /\ UNCHANGED nonRepoVars

\* perform_restic_backup called on its own (development image backup), up
\* to its call of get_or_generate_repository_password.
StartPerformResticBackup ==
    /\ RepoRunReset
    /\ chained' = FALSE
    /\ \E ready \in BOOLEAN : rpc' = IF ready THEN "p_loc" ELSE "done"
    /\ UNCHANGED <<shown, pwFault, pwLog>>
    /\ UNCHANGED nonRepoVars

\* repo_password = self.get_or_generate_repository_password(), then the
\* environment of the function is set up.
GetPasswordStep(next) ==
    /\ \E o \in GetOrGenerateOutcomes :
         /\ storedPw' = o.stored
         /\ reminder' = o.rem
         /\ genCount' = o.gen
         /\ shown' = o.shown
         /\ pwFault' = (pwFault \/ o.fault)
         /\ pwLog' = pwLog \cup o.log
         /\ IF o.ret = NoSecret
            THEN RepoFinish("False", "no_secret") /\ env' = NoEnv
            ELSE /\ env' = [pw |-> o.ret, src |-> o.src]
                 /\ rpc' = next
                 /\ UNCHANGED <<rresult, failure>>
    /\ UNCHANGED <<chained, repoPw, cmdLog, aiSeen, lastEntered, cancelLen, runs,
                   prompts>>
    /\ UNCHANGED nonRepoVars

\* subprocess.run([restic, "init"], env=env) and the branch on its result.
InitCommandStep(onNew, onExisting) ==
    /\ \E r \in ResticInitOutcomes :
         /\ cmdLog' = Append(cmdLog, Logged("init", r.rc))
         /\ repoPw' = IF r.rc = 0 THEN env.pw ELSE repoPw
         /\ IF r.rc = 0
            THEN rpc' = onNew /\ UNCHANGED <<rresult, failure, aiSeen>>
            ELSE IF ReportsAlreadyInitialized(r.stderr)
            THEN rpc' = onExisting /\ aiSeen' = TRUE /\ UNCHANGED <<rresult, failure>>
            ELSE RepoFinish("False", "init_failed") /\ UNCHANGED aiSeen
         /\ pwLog' = IF r.rc # 0 /\ ~ReportsAlreadyInitialized(r.stderr)
                     THEN pwLog \cup {InitFailedLine(<<r.stderr>>)}
                     ELSE pwLog
    /\ UNCHANGED <<chained, storedPw, env, genCount, reminder, lastEntered, cancelLen, runs>>
    /\ UNCHANGED <<shown, pwFault, prompts>>
    /\ UNCHANGED nonRepoVars

\* prompt_repository_password_confirmation: the window stays until the
\* operator confirms a text that is not empty after strip(), or cancels
\* (or closes the window); the caller then replaces RESTIC_PASSWORD.
PromptStep(next) ==
    /\ prompts' = prompts + 1
    /\ \/ \E t \in PromptTexts :
            /\ Strip(t) # NoSecret
            /\ lastEntered' = Strip(t)
            /\ env' = EnvAfterConfirm(env, Strip(t))
            /\ rpc' = next
            /\ UNCHANGED <<rresult, failure, cancelLen>>
       \/ /\ RepoFinish("False", "cancelled")
          /\ cancelLen' = Len(cmdLog)
          /\ UNCHANGED <<env, lastEntered>>
    /\ UNCHANGED <<chained, storedPw, repoPw, genCount, reminder, cmdLog, aiSeen, runs>>
    /\ UNCHANGED <<shown, pwFault, pwLog>>
    /\ UNCHANGED nonRepoVars

\* if verify_proc.returncode == 0: ... else: ... return False
VerifyRejects_Ignored(rc) == FALSE
VerifyRejects(rc) == rc # 0

\* subprocess.run([restic, "snapshots", "--json", "--last", "1"], env=env)
VerifyStep(next) ==
    /\ \E rc \in ResticSnapshotsOutcomes :
         /\ cmdLog' = Append(cmdLog, Logged("snapshots", rc))
         /\ IF VerifyRejects(rc)
            THEN RepoFinish("False", "rejected")
            ELSE rpc' = next /\ UNCHANGED <<rresult, failure>>
    /\ UNCHANGED <<chained, storedPw, repoPw, env, genCount, reminder, aiSeen,
                   lastEntered, cancelLen, runs>>
    /\ UNCHANGED <<shown, pwFault, pwLog, prompts>>
    /\ UNCHANGED nonRepoVars

\* s3_repo_path = self.build_s3_repository_path(s3_config): without a
\* location the function returns False.
BuildLocationStep(next) ==
    /\ \E built \in BOOLEAN :
         IF built
         THEN rpc' = next /\ UNCHANGED <<rresult, failure>>
         ELSE RepoFinish("False", "no_location")
    /\ UNCHANGED <<chained, storedPw, repoPw, env, genCount, reminder, cmdLog, aiSeen,
                   lastEntered, cancelLen, runs>>
    /\ UNCHANGED <<shown, pwFault, pwLog, prompts>>
    /\ UNCHANGED nonRepoVars

\* init_restic_repository returning True sends create_vss_restic_backup on
\* to perform_restic_backup.
InitGetPassword == rpc = "i_getpw" /\ GetPasswordStep("i_loc")
InitBuildLocation == rpc = "i_loc" /\ BuildLocationStep("i_init")
InitRepository == rpc = "i_init" /\ InitCommandStep("p_loc", "i_prompt")
InitPrompt == rpc = "i_prompt" /\ PromptStep("i_verify")
InitVerify == rpc = "i_verify" /\ VerifyStep("p_loc")

\* perform_restic_backup builds the location before it asks for the secret.
PerformBuildLocation == rpc = "p_loc" /\ BuildLocationStep("p_getpw")
PerformGetPassword == rpc = "p_getpw" /\ GetPasswordStep("p_init")
PerformInit == rpc = "p_init" /\ InitCommandStep("p_backup", "p_prompt")
PerformPrompt == rpc = "p_prompt" /\ PromptStep("p_verify")
PerformVerify == rpc = "p_verify" /\ VerifyStep("p_backup")

\* subprocess.Popen(backup_cmd, env=env), its output streamed to the log.
PerformBackup ==
    /\ rpc = "p_backup"
    /\ \E rc \in ResticBackupOutcomes :
         /\ cmdLog' = Append(cmdLog, Logged("backup", rc))
         /\ RepoFinish(IF rc = 0 THEN "True" ELSE "False",
                       IF rc = 0 THEN "none" ELSE "backup_failed")
    /\ UNCHANGED <<chained, storedPw, repoPw, env, genCount, reminder, aiSeen,
                   lastEntered, cancelLen, runs>>
    /\ UNCHANGED <<shown, pwFault, pwLog, prompts>>
    /\ UNCHANGED nonRepoVars

\* The operator ticks the box and presses "I Have Saved The Password".
AcknowledgeReminder ==
    /\ reminder = "open"
    /\ reminder' = "acked"
    /\ UNCHANGED <<rpc, chained, rresult, storedPw, repoPw, env, genCount,
                   cmdLog, aiSeen, lastEntered, cancelLen, runs>>
    /\ UNCHANGED <<shown, pwFault, pwLog, failure, prompts>>
    /\ UNCHANGED nonRepoVars

NextRepo ==
    \/ StartCreateVssResticBackup
    \/ StartPerformResticBackup
    \/ InitGetPassword
    \/ InitBuildLocation
    \/ InitRepository
    \/ InitPrompt
    \/ InitVerify
    \/ PerformBuildLocation
    \/ PerformGetPassword
    \/ PerformInit
    \/ PerformPrompt
    \/ PerformVerify
    \/ PerformBackup
    \/ AcknowledgeReminder

(***************************************************************************)
(* Drive mappings for a shadow copy: create_vss_drive_mapping and          *)
(* remove_vss_drive_mapping.  A path is a sequence of its pieces, so that  *)
(* the tests remove_vss_drive_mapping makes on it are made on its text.    *)
(***************************************************************************)
\* for letter in "ZYXWVUTSRQPONMLKJIHGFED"
AllLetters == <<"Z", "Y", "X", "W", "V", "U", "T", "S", "R", "Q", "P", "O",
                "N", "M", "L", "K", "J", "I", "H", "G", "F", "E", "D">>

\* The letters the model lets be free; every later one holds a volume.
Letters == SubSeq(AllLetters, 1, MaxLetters)
LetterSet == {Letters[i] : i \in DOMAIN Letters}

NoMapping == <<>>

\* test_drive = f"{drive_letter}:\\"
DrivePath(l) == <<l, ":", "\\">>

\* temp_dir = f"C:\\temp_vss_mount_{drive_letter}", returned as temp_dir + "\\"
JunctionPath(l) == <<"C", ":", "\\", "temp_vss_mount_", l, "\\">>

\* len(mapped_path) >= 3 and mapped_path[1:3] == ':\\'
LooksLikeDrive(p) == Len(p) >= 3 /\ SubSeq(p, 2, 3) = <<":", "\\">>

\* mapped_path.startswith("C:\\temp_vss_mount_")
LooksLikeJunction(p) == Len(p) >= 4 /\ SubSeq(p, 1, 4) = <<"C", ":", "\\", "temp_vss_mount_">>

\* os.path.exists(f"{letter}:\\"): a volume, or a substitution whose target
\* can be reached.
DriveExists(l, st) == l \in realDrives \/ l \in st.ok

VssState == [su |-> substs, ok |-> substOk, td |-> tempDirs, jn |-> junctions]

AvailableLetters == SelectSeq(Letters, LAMBDA l : ~DriveExists(l, VssState))

\* One run of subst for letter l (directly or through PowerShell): the
\* mapping is made and reachable, made but not reachable, refused, or the
\* process cannot be started.  subst refuses a letter already substituted.
SubstAttempt(l, st) ==
    {[res |-> "failed", st |-> st], [res |-> "raise", st |-> st]}
    \cup IF l \in st.su
         THEN {}
         ELSE {[res |-> "mapped", st |-> [st EXCEPT !.su = @ \cup {l}, !.ok = @ \cup {l}]],
               [res |-> "hidden", st |-> [st EXCEPT !.su = @ \cup {l}]]}

\* Method 2: the directory for the junction is cleared if present, made
\* with os.makedirs, and mklink is run on it; nothing made is taken back
\* when a later step fails or raises.
JunctionAttempt(l, st, tried) ==
    LET cleared == IF l \in st.td
                   THEN {st, [st EXCEPT !.td = @ \ {l}, !.jn = @ \ {l}]}
                   ELSE {st}
        t == Append(tried, "junction")
    IN  UNION {
          LET made == [c EXCEPT !.td = @ \cup {l}]
              linked == [made EXCEPT !.jn = @ \cup {l}]
          IN  {[ret |-> NoMapping, st |-> c, tried |-> t],
               [ret |-> NoMapping, st |-> made, tried |-> t],
               [ret |-> NoMapping, st |-> linked, tried |-> t],
               [ret |-> JunctionPath(l), st |-> linked, tried |-> t]}
          : c \in cleared }

\* Everything create_vss_drive_mapping can do in the current state.
CreateMappingOutcomes ==
    IF AvailableLetters = <<>>
    THEN {[ret |-> NoMapping, st |-> VssState, tried |-> <<>>]}
    ELSE LET l == Head(AvailableLetters)
             t1 == <<"subst">>
             t2 == <<"subst", "powershell subst">>
         IN  UNION {
               IF a.res = "mapped" THEN {[ret |-> DrivePath(l), st |-> a.st, tried |-> t1]}
               ELSE IF a.res = "raise" THEN {[ret |-> NoMapping, st |-> a.st, tried |-> t1]}
               ELSE UNION {
                      IF b.res = "mapped" THEN {[ret |-> DrivePath(l), st |-> b.st, tried |-> t2]}
                      ELSE IF b.res = "raise" THEN {[ret |-> NoMapping, st |-> b.st, tried |-> t2]}
                      ELSE JunctionAttempt(l, b.st, t2)
                      : b \in SubstAttempt(l, a.st) }
               : a \in SubstAttempt(l, VssState) }

\* Everything remove_vss_drive_mapping can do with path p: the commands it
\* runs and what is left.  The letter of "subst <letter>: /D" is the first
\* piece of the path.
RemoveMappingOutcomes(p) ==
    IF p = NoMapping THEN {[st |-> VssState, cmds |-> <<>>]}
    ELSE IF LooksLikeDrive(p)
    THEN LET l == p[1]
             cmd == [tool |-> "subst /D", target |-> l]
         IN  {[st |-> VssState, cmds |-> <<cmd>>]}
             \cup IF l \in substs
                  THEN {[st |-> [VssState EXCEPT !.su = @ \ {l}, !.ok = @ \ {l}],
                         cmds |-> <<cmd>>]}
                  ELSE {}
    ELSE IF LooksLikeJunction(p)
    THEN LET l == p[5]
             gone == [VssState EXCEPT !.td = @ \ {l}, !.jn = @ \ {l}]
             rmdir == [tool |-> "rmdir", target |-> l]
             force == [tool |-> "rmdir /S /Q", target |-> l]
         IN  {[st |-> gone, cmds |-> <<rmdir>>],
              [st |-> gone, cmds |-> <<rmdir, force>>],
              [st |-> VssState, cmds |-> <<rmdir, force>>]}
    ELSE {[st |-> VssState, cmds |-> <<>>]}

\* A machine with no substitution and no leftover directory.
VssStart(drives) ==
    /\ realDrives = drives
    /\ substs = {}
    /\ substOk = {}
    /\ tempDirs = {}
    /\ junctions = {}
    /\ mapState = "none"
    /\ mapRet = NoMapping
    /\ mapTried = <<>>
    /\ madeSubsts = {}
    /\ madeDirs = {}
    /\ rmCmds = <<>>
    /\ mapCalls = 0

InitVss == VssStart({})

InitVssAny == \E drives \in SUBSET LetterSet : VssStart(drives)

CreateVssDriveMapping ==
    /\ mapCalls < MaxMapCalls
    /\ mapCalls' = mapCalls + 1
    /\ \E o \in CreateMappingOutcomes :
         /\ substs' = o.st.su
         /\ substOk' = o.st.ok
         /\ tempDirs' = o.st.td
         /\ junctions' = o.st.jn
         /\ mapRet' = o.ret
         /\ mapTried' = o.tried
         /\ madeSubsts' = o.st.su \ substs
         /\ madeDirs' = (o.st.td \ tempDirs) \cup (o.st.jn \ junctions)
    /\ mapState' = "returned"
    /\ rmCmds' = <<>>
    /\ UNCHANGED realDrives
    /\ UNCHANGED nonVssVars

\* remove_vss_drive_mapping on the path the latest create call returned.
RemoveVssDriveMapping ==
    /\ mapState = "returned"
    /\ \E o \in RemoveMappingOutcomes(mapRet) :
         /\ substs' = o.st.su
         /\ substOk' = o.st.ok
         /\ tempDirs' = o.st.td
         /\ junctions' = o.st.jn
         /\ rmCmds' = o.cmds
    /\ mapState' = "removed"
    /\ UNCHANGED <<realDrives, mapRet, mapTried, madeSubsts, madeDirs, mapCalls>>
    /\ UNCHANGED nonVssVars

NextVss ==
    \/ CreateVssDriveMapping
    \/ RemoveVssDriveMapping

(***************************************************************************)
(* get_vss_shadow_path: one PowerShell (WMI) query, then up to five        *)
(* vssadmin queries five seconds apart.  An output is a sequence of        *)
(* pieces of text, so that the tests made on it are made on its content.   *)
(***************************************************************************)
NoPath == <<>>

DeviceWord == "HarddiskVolumeShadowCopy"
VolumeLabel == "Shadow Copy Volume"

\* The device object of the shadow copy once the backend can tell it.
DevicePath == <<"\\\\?\\GLOBALROOT\\Device\\", DeviceWord, "1">>

\* 'HarddiskVolumeShadowCopy' in text
ContainsDevice(s) == \E i \in DOMAIN s : s[i] = DeviceWord

\* "Shadow Copy Volume:" in line
HasVolumeLabel(line) ==
    \E i \in 1..(Len(line) - 1) : line[i] = VolumeLabel /\ line[i + 1] = ":"

\* line.split(":", 1)[1]
AfterFirstColon(line) ==
    LET i == CHOOSE k \in DOMAIN line : line[k] = ":" /\ \A j \in 1..(k - 1) : line[j] # ":"
    IN  SubSeq(line, i + 1, Len(line))

\* shadow_path = result.stdout.strip(), accepted when not empty and naming
\* a shadow device; NoPath when not accepted.
ParsePowerShell(out) ==
    LET p == Strip(out)
    IN  IF p # <<>> /\ ContainsDevice(p) THEN p ELSE NoPath

LinePath(line) ==
    IF HasVolumeLabel(line) /\ ContainsDevice(Strip(AfterFirstColon(line)))
    THEN Strip(AfterFirstColon(line))
    ELSE NoPath

ParseVssadmin_Blind(out) == NoPath

\* The first line of the output that carries the label and a device path.
ParseVssadmin(out) ==
    LET good == SelectSeq(SplitLines(out), LAMBDA l : LinePath(l) # NoPath)
    IN  IF good = <<>> THEN NoPath ELSE LinePath(Head(good))

\* for attempt in range(1, 6)
VssadminAttempts == 5
MoreAttempts(a) == a < VssadminAttempts

\* What the PowerShell query can print.
PowerShellReady == {DevicePath \o <<"\n">>, <<" ">> \o DevicePath \o <<"\n">>, DevicePath}
PowerShellNotReady == {<<>>, <<"\n">>, <<"Get-WmiObject : Invalid query", "\n">>}

\* Lines of "vssadmin list shadows".
BannerLine == <<"vssadmin 1.1 - Volume Shadow Copy Service administrative command-line tool">>
SetLine == <<"Contents of shadow copy set ID", ":", " ", "{set}">>
TimeLine == <<" ", "Contained 1 shadow copies at creation time", ":", " ", "10", ":", "00">>
OriginalLine == <<" ", "Original Volume", ":", " ", "(C", ":", ")", "\\\\?\\Volume{id}\\">>
VolumeLine == <<" ", VolumeLabel, ":", " ">> \o DevicePath
VssadminLines == {BannerLine, SetLine, TimeLine, OriginalLine, VolumeLine, <<>>}

RECURSIVE JoinLines(_)
JoinLines(ls) == IF ls = <<>> THEN <<>> ELSE Head(ls) \o <<"\n">> \o JoinLines(Tail(ls))

\* A poll: the process failed (non-zero exit or timeout, raised by
\* check=True / timeout=), or it printed out; ready tells whether the
\* backend gave the device path in this poll.
PowerShellPolls ==
    {[raised |-> TRUE, out |-> <<>>, ready |-> FALSE]}
    \cup {[raised |-> FALSE, out |-> o, ready |-> TRUE] : o \in PowerShellReady}
    \cup {[raised |-> FALSE, out |-> o, ready |-> FALSE] : o \in PowerShellNotReady}

VssadminPolls ==
    {[raised |-> TRUE, out |-> <<>>, ready |-> FALSE]}
    \cup {[raised |-> FALSE, out |-> JoinLines(ls),
           ready |-> \E i \in DOMAIN ls : ls[i] = VolumeLine]
          : ls \in SeqsUpTo(VssadminLines, MaxShadowLines)}

InitShadowPath ==
    /\ shpc = "idle"
    /\ shAttempt = 0
    /\ shPolls = <<>>
    /\ shOut = <<>>
    /\ shRet = NoPath
    /\ shCalls = 0

StartGetVssShadowPath ==
    /\ shpc \in {"idle", "done"}
    /\ shCalls < MaxPathCalls
    /\ shCalls' = shCalls + 1
    /\ shpc' = "powershell"
    /\ shAttempt' = 0
    /\ shPolls' = <<>>
    /\ shOut' = <<>>
    /\ shRet' = NoPath
    /\ UNCHANGED nonShVars

\* Method 1: PowerShell using WMI.
ShadowPathPowerShell ==
    /\ shpc = "powershell"
    /\ \E r \in PowerShellPolls :
         LET p == IF r.raised THEN NoPath ELSE ParsePowerShell(r.out)
         IN  /\ shPolls' = Append(shPolls, r.ready)
             /\ shOut' = r.out
             /\ IF p # NoPath
                THEN shpc' = "done" /\ shRet' = p /\ UNCHANGED shAttempt
                ELSE shpc' = "vssadmin" /\ shAttempt' = 1 /\ UNCHANGED shRet
    /\ UNCHANGED shCalls
    /\ UNCHANGED nonShVars

\* Method 2: one pass of the vssadmin loop, with its sleep and, after the
\* last pass, the return of None.
ShadowPathVssadmin ==
    /\ shpc = "vssadmin"
    /\ \E r \in VssadminPolls :
         LET p == IF r.raised THEN NoPath ELSE ParseVssadmin(r.out)
         IN  /\ shPolls' = Append(shPolls, r.ready)
             /\ shOut' = r.out
             /\ IF p # NoPath
                THEN shpc' = "done" /\ shRet' = p /\ UNCHANGED shAttempt
                ELSE IF MoreAttempts(shAttempt)
                THEN shAttempt' = shAttempt + 1 /\ UNCHANGED <<shpc, shRet>>
                ELSE shpc' = "done" /\ shRet' = NoPath /\ UNCHANGED shAttempt
    /\ UNCHANGED shCalls
    /\ UNCHANGED nonShVars

NextShadowPath ==
    \/ StartGetVssShadowPath
    \/ ShadowPathPowerShell
    \/ ShadowPathVssadmin

(***************************************************************************)
(* Pipeline workers: the threads started by start_dev_backup,              *)
(* start_vss_restic_creation_thread and start_vhdx_creation, and the tags  *)
(* perform_restic_backup puts on the backup command.  A tag list is known  *)
(* by the backup-uuid generated with it; 0 stands for no list.             *)
(***************************************************************************)
\* The threads the model lets be started.
Workers == 1..MaxWorkers

NoTags == 0

\* A thread exists from Thread.start() until its target has returned.
Running(w) == wpc[w] \notin {"off", "done"}

RunningOf(kind) == {w \in Workers : wkind[w] = kind /\ Running(w)}

\* generate_uuidv7: millisecond timestamp and 74 random bits; every call
\* gives a value not given before.
FreshUuid == nextUuid + 1

InitPipelines ==
    /\ wpc = [w \in Workers |-> "off"]
    /\ wkind = [w \in Workers |-> "none"]
    /\ wtags = [w \in Workers |-> NoTags]
    /\ currentBackupTags = NoTags
    /\ builtBy = <<>>
    /\ invoked = {}
    /\ vssButton = "normal"
    /\ nextUuid = 0

\* start_dev_backup: starts the worker thread, whatever is running.
StartDevBackup ==
    /\ \E w \in Workers :
         /\ wpc[w] = "off"
         /\ wpc' = [wpc EXCEPT ![w] = "dev_build"]
         /\ wkind' = [wkind EXCEPT ![w] = "dev"]
    /\ UNCHANGED <<wtags, currentBackupTags, builtBy, invoked, vssButton, nextUuid>>
    /\ UNCHANGED nonPlVars

\* perform_dev_backup_worker up to its call of perform_restic_backup: the
\* tags are built and stored in self._current_backup_tags; a client that is
\* not found ends the worker before, a failed download_restic after.
DevBuildTags ==
    /\ \E w \in Workers :
         /\ wpc[w] = "dev_build"
         /\ \/ /\ wpc' = [wpc EXCEPT ![w] = "done"]
               /\ UNCHANGED <<currentBackupTags, builtBy, nextUuid>>
            \/ /\ nextUuid' = FreshUuid
               /\ builtBy' = Append(builtBy, w)
               /\ currentBackupTags' = FreshUuid
               /\ \E downloaded \in BOOLEAN :
                    wpc' = [wpc EXCEPT ![w] = IF downloaded THEN "check" ELSE "done"]
    /\ UNCHANGED <<wkind, wtags, invoked, vssButton>>
    /\ UNCHANGED nonPlVars

\* The button runs its command only while it is enabled; the handler
\* disables both buttons and starts the worker, which goes through
\* create_vss_restic_backup to perform_restic_backup.
StartVssResticCreationThread ==
    /\ vssButton = "normal"
    /\ vssButton' = "disabled"
    /\ \E w \in Workers :
         /\ wpc[w] = "off"
         /\ wkind' = [wkind EXCEPT ![w] = "vss"]
         /\ \E ready \in BOOLEAN :
              wpc' = [wpc EXCEPT ![w] = IF ready THEN "check" ELSE "finally"]
    /\ UNCHANGED <<wtags, currentBackupTags, builtBy, invoked, nextUuid>>
    /\ UNCHANGED nonPlVars

\* if hasattr(self, '_current_backup_tags') and self._current_backup_tags,
\* else backup_tags = self.generate_backup_tags()
PerformCheckTags ==
    /\ \E w \in Workers :
         /\ wpc[w] = "check"
         /\ IF currentBackupTags # NoTags
            THEN /\ wpc' = [wpc EXCEPT ![w] = "read"]
                 /\ UNCHANGED <<wtags, builtBy, nextUuid>>
            ELSE /\ nextUuid' = FreshUuid
                 /\ builtBy' = Append(builtBy, w)
                 /\ wtags' = [wtags EXCEPT ![w] = FreshUuid]
                 /\ wpc' = [wpc EXCEPT ![w] = "command"]
    /\ UNCHANGED <<wkind, currentBackupTags, invoked, vssButton>>
    /\ UNCHANGED nonPlVars

\* Where a worker goes when perform_restic_backup returns or raises.
AfterPerform(w) == IF wkind[w] = "vss" THEN "finally" ELSE "done"

\* backup_tags = self._current_backup_tags; a missing attribute raises
\* AttributeError, which ends perform_restic_backup with False.
PerformReadTags ==
    /\ \E w \in Workers :
         /\ wpc[w] = "read"
         /\ IF currentBackupTags # NoTags
            THEN /\ wtags' = [wtags EXCEPT ![w] = currentBackupTags]
                 /\ wpc' = [wpc EXCEPT ![w] = "delete"]
            ELSE /\ wpc' = [wpc EXCEPT ![w] = AfterPerform(w)]
                 /\ UNCHANGED wtags
    /\ UNCHANGED <<wkind, currentBackupTags, builtBy, invoked, vssButton, nextUuid>>
    /\ UNCHANGED nonPlVars

\* delattr(self, '_current_backup_tags')
PerformDeleteTags ==
    /\ \E w \in Workers :
         /\ wpc[w] = "delete"
         /\ IF currentBackupTags # NoTags
            THEN /\ currentBackupTags' = NoTags
                 /\ wpc' = [wpc EXCEPT ![w] = "command"]
            ELSE /\ wpc' = [wpc EXCEPT ![w] = AfterPerform(w)]
                 /\ UNCHANGED currentBackupTags
    /\ UNCHANGED <<wkind, wtags, builtBy, invoked, vssButton, nextUuid>>
    /\ UNCHANGED nonPlVars

\* The rest of perform_restic_backup: the command is built with a --tag
\* for every tag, the repository is checked, and the backup process is
\* started unless an earlier step returned False.
PerformInvokeBackup ==
    /\ \E w \in Workers :
         /\ wpc[w] = "command"
         /\ \E reached \in BOOLEAN :
              invoked' = IF reached
                         THEN invoked \cup {[worker |-> w, uuid |-> wtags[w]]}
                         ELSE invoked
         /\ wpc' = [wpc EXCEPT ![w] = AfterPerform(w)]
    /\ UNCHANGED <<wkind, wtags, currentBackupTags, builtBy, vssButton, nextUuid>>
    /\ UNCHANGED nonPlVars

\* finally of vss_restic_creation_worker: both buttons are enabled again.
VssWorkerFinally ==
    /\ \E w \in Workers :
         /\ wpc[w] = "finally"
         /\ wpc' = [wpc EXCEPT ![w] = "done"]
    /\ vssButton' = "normal"
    /\ UNCHANGED <<wkind, wtags, currentBackupTags, builtBy, invoked, nextUuid>>
    /\ UNCHANGED nonPlVars

\* start_vhdx_creation: after validation and the askyesno, the creation
\* thread is started, whatever is running.
StartVhdxCreationThread ==
    /\ \E w \in Workers :
         /\ wpc[w] = "off"
         /\ wpc' = [wpc EXCEPT ![w] = "vhdx_workflow"]
         /\ wkind' = [wkind EXCEPT ![w] = "vhdx"]
    /\ UNCHANGED <<wtags, currentBackupTags, builtBy, invoked, vssButton, nextUuid>>
    /\ UNCHANGED nonPlVars

\* creation_thread: perform_vhdx_creation_workflow has returned or raised.
VhdxCreationThreadEnds ==
    /\ \E w \in Workers :
         /\ wpc[w] = "vhdx_workflow"
         /\ wpc' = [wpc EXCEPT ![w] = "done"]
    /\ UNCHANGED <<wkind, wtags, currentBackupTags, builtBy, invoked, vssButton, nextUuid>>
    /\ UNCHANGED nonPlVars

NextPipelines ==
    \/ StartDevBackup
    \/ DevBuildTags
    \/ StartVssResticCreationThread
    \/ PerformCheckTags
    \/ PerformReadTags
    \/ PerformDeleteTags
    \/ PerformInvokeBackup
    \/ VssWorkerFinally
    \/ StartVhdxCreationThread
    \/ VhdxCreationThreadEnds

(***************************************************************************)
(* Streaming runners.  capture_with_dism gives the child two pipes, reads  *)
(* each in a thread of its own into one queue, and takes lines from the    *)
(* queue while the child runs.  run_powershell, the backup stream of       *)
(* perform_restic_backup and the restore stream of restore_restic_to_mount *)
(* give the child one pipe for both streams (stderr=STDOUT) and read it to *)
(* its end.  A pipe holds MaxPipe lines; a write to a full pipe waits.     *)
(***************************************************************************)
Streams == {"out", "err"}

\* Lines by what the runner does with them: a line with one of the error
\* texts capture_with_dism looks for, a progress line whose percentage is
\* above the last one, a progress line whose percentage is not, other text.
LineKinds == {"critical", "progress_up", "progress_same", "text"}

NoLine == [stream |-> "none", kind |-> "none"]

\* stdout_thread and stderr_thread
ReaderStreams_StdoutOnly == {"out"}

ReaderStreams == {"out", "err"}

\* The pipe a write of the child goes to.
PipeOf(mode, stream) == IF mode = "merged" THEN "out" ELSE stream

PipeFull(p) == Len(pipes[p]) >= MaxPipe

ChildBlocked == child = "running" /\ pending # NoLine

\* if stalled_count > 10
StallLimit == 10

\* The lines that a runner can tell apart on a stream: capture_with_dism
\* examines its stdout lines and only logs its stderr lines, the runners of
\* one pipe only log.
KindsOn(mode, s) ==
    IF mode = "capture"
    THEN IF s = "out" THEN LineKinds ELSE {"critical", "text"}
    ELSE {"text"}

\* The test of a stdout line taken from the queue.
IsCritical(kind) == kind = "critical"

\* stalled_count after a stdout line.
StalledAfter(kind, n) ==
    CASE kind = "progress_up" -> 0
      [] kind = "progress_same" -> n + 1
      [] OTHER -> n

InitCapture ==
    /\ cmode = "none"
    /\ cpc = "idle"
    /\ child = "none"
    /\ childRc = 0
    /\ toWrite = 0
    /\ pending = NoLine
    /\ pipes = [p \in Streams |-> <<>>]
    /\ readers = [p \in Streams |-> "off"]
    /\ queue = <<>>
    /\ stalledCount = 0
    /\ criticalOn = {}
    /\ cresult = "none"
    /\ chow = "none"

\* Popen and what precedes the reading of the output; the child is given
\* the number of lines it is going to write.
RunnerStart(mode) ==
    /\ cpc = "idle"
    /\ cmode' = mode
    /\ pending' = NoLine
    /\ pipes' = [p \in Streams |-> <<>>]
    /\ queue' = <<>>
    /\ stalledCount' = 0
    /\ criticalOn' = {}
    /\ childRc' = 0
    /\ \/ /\ cpc' = "stream"
          /\ child' = "running"
          /\ toWrite' \in 0..MaxWrites
          /\ readers' = [p \in Streams |->
                            IF mode = "capture" /\ p \in ReaderStreams THEN "on" ELSE "off"]
          /\ cresult' = "none"
          /\ chow' = "none"
       \/ /\ cpc' = "done"
          /\ child' = "none"
          /\ toWrite' = 0
          /\ readers' = [p \in Streams |-> "off"]
          /\ cresult' = "False"
          /\ chow' = "exception"
    /\ UNCHANGED nonCapVars

StartCaptureWithDism == cmode = "none" /\ RunnerStart("capture")

StartMergedRunner == cmode = "none" /\ RunnerStart("merged")

\* The child writes a line: it goes into the pipe if the pipe has room,
\* and otherwise the child waits with the line in hand.
ChildWrite ==
    /\ child = "running"
    /\ pending = NoLine
    /\ toWrite > 0
    /\ toWrite' = toWrite - 1
    /\ \E s \in Streams : \E k \in KindsOn(cmode, s) :
         LET l == [stream |-> s, kind |-> k]
             p == PipeOf(cmode, s)
         IN  IF PipeFull(p)
             THEN pending' = l /\ UNCHANGED <<pipes, criticalOn>>
             ELSE /\ pipes' = [pipes EXCEPT ![p] = Append(@, l)]
                  /\ criticalOn' = IF k = "critical" THEN criticalOn \cup {s} ELSE criticalOn
                  /\ UNCHANGED pending
    /\ UNCHANGED <<cmode, cpc, child, childRc, readers, queue, stalledCount,
                   cresult, chow>>
    /\ UNCHANGED nonCapVars

\* The waiting write goes through once the pipe has room.
ChildWriteResumes ==
    /\ child = "running"
    /\ pending # NoLine
    /\ ~PipeFull(PipeOf(cmode, pending.stream))
    /\ pipes' = [pipes EXCEPT ![PipeOf(cmode, pending.stream)] = Append(@, pending)]
    /\ criticalOn' = IF pending.kind = "critical"
                     THEN criticalOn \cup {pending.stream} ELSE criticalOn
    /\ pending' = NoLine
    /\ UNCHANGED <<cmode, cpc, child, childRc, toWrite, readers, queue, stalledCount,
                   cresult, chow>>
    /\ UNCHANGED nonCapVars

\* The child ends with its exit code once it has written everything.
ChildExit ==
    /\ child = "running"
    /\ pending = NoLine
    /\ toWrite = 0
    /\ child' = "exited"
    /\ childRc' \in {0, 1}
    /\ UNCHANGED <<cmode, cpc, toWrite, pending, pipes, readers, queue, stalledCount,
                   criticalOn, cresult, chow>>
    /\ UNCHANGED nonCapVars

\* read_output / read_errors: a line of the pipe goes to the queue; at the
\* end of the pipe the thread ends.  The threads are followed until
\* capture_with_dism has returned.
ReaderStep(p) ==
    /\ cmode = "capture"
    /\ cpc # "done"
    /\ readers[p] = "on"
    /\ IF pipes[p] # <<>>
       THEN /\ queue' = Append(queue, Head(pipes[p]))
            /\ pipes' = [pipes EXCEPT ![p] = Tail(@)]
            /\ UNCHANGED readers
       ELSE /\ child # "running"
            /\ readers' = [readers EXCEPT ![p] = "ended"]
            /\ UNCHANGED <<queue, pipes>>
    /\ UNCHANGED <<cmode, cpc, child, childRc, toWrite, pending, stalledCount,
                   criticalOn, cresult, chow>>
    /\ UNCHANGED nonCapVars

ReadStdout == readers["out"] = "on" /\ ReaderStep("out")

ReadStderr == readers["err"] = "on" /\ ReaderStep("err")

\* while dism_proc.poll() is None: output_queue.get(timeout=30) gave a line.
CaptureGetLine ==
    /\ cmode = "capture"
    /\ cpc = "stream"
    /\ child = "running"
    /\ queue # <<>>
    /\ queue' = Tail(queue)
    /\ LET l == Head(queue)
       IN  IF l.stream = "out" /\ IsCritical(l.kind)
           THEN /\ child' = "killed"
                /\ cpc' = "done"
                /\ cresult' = "False"
                /\ chow' = "critical"
                /\ UNCHANGED stalledCount
           ELSE /\ stalledCount' = IF l.stream = "out"
                                   THEN StalledAfter(l.kind, stalledCount)
                                   ELSE stalledCount
                /\ UNCHANGED <<child, cpc, cresult, chow>>
    /\ UNCHANGED <<cmode, childRc, toWrite, pending, pipes, readers,
                   criticalOn>>
    /\ UNCHANGED nonCapVars

\* except queue.Empty: thirty seconds without a line while the child runs.
CaptureTimeout ==
    /\ cmode = "capture"
    /\ cpc = "stream"
    /\ child = "running"
    /\ queue = <<>>
    /\ stalledCount' = stalledCount + 1
    /\ IF stalledCount + 1 > StallLimit
       THEN /\ child' = "killed"
            /\ cpc' = "done"
            /\ cresult' = "False"
            /\ chow' = "stall"
       ELSE UNCHANGED <<child, cpc, cresult, chow>>
    /\ UNCHANGED <<cmode, childRc, toWrite, pending, pipes, readers, queue,
                   criticalOn>>
    /\ UNCHANGED nonCapVars

\* The loop ends when poll() gives the exit code, whatever is in the queue.
CaptureLoopEnds ==
    /\ cmode = "capture"
    /\ cpc = "stream"
    /\ child = "exited"
    /\ cpc' = "wait"
    /\ UNCHANGED <<cmode, child, childRc, toWrite, pending, pipes, readers, queue,
                   stalledCount, criticalOn, cresult, chow>>
    /\ UNCHANGED nonCapVars

\* for line in iter(process.stdout.readline, ''): a line is logged; the
\* loop ends at the end of the pipe.
MergedReadLine ==
    /\ cmode = "merged"
    /\ cpc = "stream"
    /\ IF pipes["out"] # <<>>
       THEN pipes' = [pipes EXCEPT !["out"] = Tail(@)] /\ UNCHANGED cpc
       ELSE child = "exited" /\ cpc' = "wait" /\ UNCHANGED pipes
    /\ UNCHANGED <<cmode, child, childRc, toWrite, pending, readers, queue,
                   stalledCount, criticalOn, cresult, chow>>
    /\ UNCHANGED nonCapVars

\* The joins (five seconds each at most), wait(), and the branch on
\* returncode; capture_with_dism also wants the image file to exist.
RunnerWait ==
    /\ cpc = "wait"
    /\ child = "exited"
    /\ cpc' = "done"
    /\ chow' = "exit_code"
    /\ \E fileThere \in BOOLEAN :
         cresult' = IF childRc = 0 /\ (cmode = "merged" \/ fileThere)
                    THEN "True" ELSE "False"
    /\ UNCHANGED <<cmode, child, childRc, toWrite, pending, pipes, readers, queue,
                   stalledCount, criticalOn>>
    /\ UNCHANGED nonCapVars

NextRunner ==
    \/ StartCaptureWithDism
    \/ StartMergedRunner
    \/ ChildWrite
    \/ ChildWriteResumes
    \/ ChildExit
    \/ ReadStdout
    \/ ReadStderr
    \/ CaptureGetLine
    \/ CaptureTimeout
    \/ CaptureLoopEnds
    \/ MergedReadLine
    \/ RunnerWait

\* The steps of the child process, and those of the thread that called the
\* runner other than the passing of thirty seconds without a line.
ChildProcess == ChildWrite \/ ChildWriteResumes \/ ChildExit

CallerThread == CaptureGetLine \/ CaptureLoopEnds \/ MergedReadLine \/ RunnerWait

\* The child and every thread of the runner keep running; nothing makes
\* thirty seconds pass without a line.
FairRunner ==
    /\ WF_vars(ChildProcess)
    /\ WF_vars(ReadStdout)
    /\ WF_vars(ReadStderr)
    /\ WF_vars(CallerThread)


(***************************************************************************)
(* Repository location.  build_s3_repository_path takes the S3             *)
(* configuration and reads the workflow mode, the client selector of that  *)
(* mode and the client table of that mode; it writes nothing but log       *)
(* lines.  Texts are sequences of pieces, so that the split of the         *)
(* selector text and the formatting of the location are computed.          *)
(***************************************************************************)
NoConfig == [kind |-> "none"]

\* The configurations handed to the function: None, one without the
\* bucket key, and two storage roots.
S3Configs ==
    { NoConfig,
      [kind |-> "dict", s3_endpoint |-> "e1"],
      [kind |-> "dict", s3_endpoint |-> "e1", s3_bucket |-> "b1"],
      [kind |-> "dict", s3_endpoint |-> "e1", s3_bucket |-> "b2"] }

HasKeys(cfg) == cfg.kind = "dict" /\ {"s3_endpoint", "s3_bucket"} \subseteq DOMAIN cfg

NoLocation == <<>>

\* Texts of the development selector: empty, a display name
\* "SHORT (Name)" of the table, and one that is in no table.
DevClientTexts == { <<>>, <<"ACME", " (", "Acme Corp)">>, <<"ZED", " (", "Zed)">> }

\* Texts of the production selector.
SelectClientText == <<"-- Select Client --">>

ProdClientTexts == { SelectClientText, <<"Acme Corp">> }

\* self.s3_clients in insertion order, and db.get_clients() in its ORDER BY
\* name; only short_name is unique in the database.
S3ClientTable == << [uuid |-> "u1", short_name |-> <<"ACME">>],
                    [uuid |-> "u2", short_name |-> <<"BETA">>],
                    [uuid |-> "u3", short_name |-> <<"ACME">>] >>

DbClientTable == << [cid |-> "c1", name |-> <<"Acme Corp">>],
                    [cid |-> "c2", name |-> <<"Acme Corp">>] >>

NoClient == "none"

DefaultClient == "default-client"

\* text.split(' (')[0]
RECURSIVE BeforeParen(_)
BeforeParen(text) ==
    IF text = <<>> \/ Head(text) = " (" THEN <<>>
    ELSE <<Head(text)>> \o BeforeParen(Tail(text))

\* for uuid, data in self.s3_clients.items(): the first client of that
\* short name.
RECURSIVE FirstOfShortName(_, _)
FirstOfShortName(table, short) ==
    IF table = <<>> THEN NoClient
    ELSE IF Head(table).short_name = short THEN Head(table).uuid
    ELSE FirstOfShortName(Tail(table), short)

\* for cid, name, short_name, desc in clients: the first client of that name.
RECURSIVE FirstOfName(_, _)
FirstOfName(table, name) ==
    IF table = <<>> THEN NoClient
    ELSE IF Head(table).name = name THEN Head(table).cid
    ELSE FirstOfName(Tail(table), name)

\* get_workflow_mode: the stored mode, "development" when none is stored.
GetWorkflowMode(stored) == IF stored = "none" THEN "development" ELSE stored

\* client_uuid before the default is applied.
ClientUuid(mode, devText, prodText, readable) ==
    IF GetWorkflowMode(mode) = "development"
    THEN IF devText # <<>>
         THEN FirstOfShortName(S3ClientTable, BeforeParen(devText))
         ELSE NoClient
    ELSE IF prodText # <<>> /\ prodText # SelectClientText /\ readable
         THEN FirstOfName(DbClientTable, prodText)
         ELSE NoClient

\* f"s3:{endpoint}/{bucket}/{client_uuid}"
LocationText_Numbered(cfg, client) ==
    <<"s3:", cfg.s3_endpoint, "/", cfg.s3_bucket, "/", client, locOps>>

LocationText(cfg, client) ==
    <<"s3:", cfg.s3_endpoint, "/", cfg.s3_bucket, "/", client>>

BuildS3RepositoryPath(cfg, mode, devText, prodText, readable) ==
    IF ~HasKeys(cfg) THEN NoLocation
    ELSE LET c == ClientUuid(mode, devText, prodText, readable)
         IN  LocationText(cfg, IF c = NoClient THEN DefaultClient ELSE c)

NoLocCall == [ops |-> -1]

InitLocation ==
    /\ locConfig = NoConfig
    /\ workflowMode = "none"
    /\ devClient = <<>>
    /\ prodClient = SelectClientText
    /\ locOps = 0
    /\ locKept = NoLocCall
    /\ locLast = NoLocCall

\* A call of build_s3_repository_path, from init_restic_repository or from
\* perform_restic_backup; the database may or may not be readable.  One
\* earlier call is kept to compare later calls with.
CallBuildS3RepositoryPath ==
    /\ \E readable \in BOOLEAN :
         locLast' = [ops |-> locOps, cfg |-> locConfig,
                     mode |-> GetWorkflowMode(workflowMode),
                     client |-> IF GetWorkflowMode(workflowMode) = "development"
                                THEN devClient ELSE prodClient,
                     readable |-> readable,
                     ret |-> BuildS3RepositoryPath(locConfig, workflowMode, devClient,
                                                   prodClient, readable)]
    /\ \/ locKept' = locKept
       \/ locLast # NoLocCall /\ locKept' = locLast
    /\ UNCHANGED <<locConfig, workflowMode, devClient, prodClient, locOps>>
    /\ UNCHANGED nonLocVars

\* create_dev_image / update_dev_image: the mode is stored as
\* "development" and a backup is started.
CreateDevImage ==
    /\ locOps < MaxLocOps
    /\ devClient # <<>>
    /\ locOps' = locOps + 1
    /\ workflowMode' = "development"
    /\ UNCHANGED <<locConfig, devClient, prodClient, locKept, locLast>>
    /\ UNCHANGED nonLocVars

\* get_or_generate_repository_password, init_restic_repository and the
\* other backups: a secret is stored or read, a repository is made or a
\* backup is run.
SecretOrBackupOperation ==
    /\ locOps < MaxLocOps
    /\ locOps' = locOps + 1
    /\ UNCHANGED <<locConfig, workflowMode, devClient, prodClient,
                   locKept, locLast>>
    /\ UNCHANGED nonLocVars

\* The operator changes the S3 configuration.  (A change of what the
\* function reads ends the comparison with the latest call.)
SaveS3Config ==
    /\ \E cfg \in S3Configs \ {locConfig} : locConfig' = cfg
    /\ UNCHANGED <<workflowMode, devClient, prodClient, locOps,
                   locKept>>
    /\ locLast' = NoLocCall
    /\ UNCHANGED nonLocVars

\* save_workflow_mode
SaveWorkflowMode ==
    /\ \E md \in {"development", "production"} \ {workflowMode} : workflowMode' = md
    /\ UNCHANGED <<locConfig, devClient, prodClient, locOps,
                   locKept>>
    /\ locLast' = NoLocCall
    /\ UNCHANGED nonLocVars

\* The operator changes a client selector.
SelectDevClient ==
    /\ \E t \in DevClientTexts \ {devClient} : devClient' = t
    /\ UNCHANGED <<locConfig, workflowMode, prodClient, locOps,
                   locKept>>
    /\ locLast' = NoLocCall
    /\ UNCHANGED nonLocVars

SelectProdClient ==
    /\ \E t \in ProdClientTexts \ {prodClient} : prodClient' = t
    /\ UNCHANGED <<locConfig, workflowMode, devClient, locOps,
                   locKept>>
    /\ locLast' = NoLocCall
    /\ UNCHANGED nonLocVars

NextLocation ==
    \/ CallBuildS3RepositoryPath
    \/ CreateDevImage
    \/ SecretOrBackupOperation
    \/ SaveS3Config
    \/ SaveWorkflowMode
    \/ SelectDevClient
    \/ SelectProdClient


(***************************************************************************)
(* create_vss_shadow_copy: the service is looked at, the shadow copy is    *)
(* asked for through PowerShell (WMI), and, if that gave no id, through    *)
(* vssadmin.  An output is a sequence of pieces of text.                   *)
(***************************************************************************)
\* What the function returns: None, or an id.
NoShadowId == [none |-> TRUE, id |-> <<>>]

ShadowId(text) == [none |-> FALSE, id |-> text]

SuccessMarker == "POWERSHELL_SUCCESS:"

ErrorMarker == "POWERSHELL_ERROR:"

IdLabel == "Shadow Copy ID: "

NoRun == [rc |-> -1, stdout |-> <<>>, raised |-> FALSE]

\* What the PowerShell script can print, with either exit code, and an
\* exception of subprocess.run.
PowerShellCreateRuns ==
    {[rc |-> rc, stdout |-> out, raised |-> FALSE] :
        rc \in {0, 1},
        out \in { <<>>, <<SuccessMarker, "id1", "\n">>, <<SuccessMarker>>,
                  <<ErrorMarker, "5", "\n">> }}
    \cup {[rc |-> -1, stdout |-> <<>>, raised |-> TRUE]}

\* What "vssadmin create shadow" can print, and an exception of
\* subprocess.run.
VssadminCreateRuns ==
    {[rc |-> 0, stdout |-> <<"Successfully created shadow copy for 'C:\\'", "\n",
                             IdLabel, "{", "id2", "}", "\n">>, raised |-> FALSE],
     [rc |-> 0, stdout |-> <<IdLabel, "{", "}", "\n">>, raised |-> FALSE],
     [rc |-> 0, stdout |-> <<>>, raised |-> FALSE],
     [rc |-> 1, stdout |-> <<"Error: Insufficient storage", "\n">>, raised |-> FALSE],
     [rc |-> 1, stdout |-> <<IdLabel, "{", "id2", "}", "\n">>, raised |-> FALSE],
     [rc |-> -1, stdout |-> <<>>, raised |-> TRUE]}

\* "POWERSHELL_SUCCESS:" in ps_proc.stdout
RECURSIVE HasPiece(_, _)
HasPiece(out, piece) ==
    out # <<>> /\ (Head(out) = piece \/ HasPiece(Tail(out), piece))

\* The pieces before the first occurrence of a piece.
RECURSIVE BeforePiece(_, _)
BeforePiece(out, piece) ==
    IF out = <<>> \/ Head(out) = piece THEN <<>>
    ELSE <<Head(out)>> \o BeforePiece(Tail(out), piece)

\* stdout.split("POWERSHELL_SUCCESS:")[1]
RECURSIVE AfterPiece(_, _)
AfterPiece(out, piece) ==
    IF out = <<>> THEN <<>>
    ELSE IF Head(out) = piece THEN BeforePiece(Tail(out), piece)
    ELSE AfterPiece(Tail(out), piece)

\* strip() of an output: white space at both ends goes.
StripPieces(out) == SelectSeq(out, LAMBDA t : t # "\n")

PowerShellSucceeded(run) ==
    ~run.raised /\ run.rc = 0 /\ HasPiece(run.stdout, SuccessMarker)

PowerShellShadowId(run) == ShadowId(StripPieces(AfterPiece(run.stdout, SuccessMarker)))

\* re.search(r'Shadow Copy ID: \{([^}]+)\}', output): the first place
\* where the label is followed by "{", at least one character and "}".
RECURSIVE SearchShadowId(_)
SearchShadowId(out) ==
    IF Len(out) < 4 THEN NoShadowId
    ELSE IF out[1] = IdLabel /\ out[2] = "{" /\ out[3] \notin {"{", "}"} /\ out[4] = "}"
    THEN ShadowId(<<out[3]>>)
    ELSE SearchShadowId(Tail(out))

\* After a PowerShell attempt that gave no id the function goes on to
\* vssadmin.
AfterPowerShellFailure_GiveUp == "done"

AfterPowerShellFailure == "vssadmin"

InitShadowCreate ==
    /\ scpc = "idle"
    /\ scCmds = <<>>
    /\ scPs = NoRun
    /\ scVss = NoRun
    /\ scRet = NoShadowId
    /\ scCalls = 0

StartCreateVssShadowCopy ==
    /\ scpc \in {"idle", "done"}
    /\ scCalls < MaxCreateCalls
    /\ scCalls' = scCalls + 1
    /\ scpc' = "service"
    /\ scCmds' = <<>>
    /\ scPs' = NoRun
    /\ scVss' = NoRun
    /\ scRet' = NoShadowId
    /\ UNCHANGED nonScVars

\* sc query VSS, and sc start VSS and net start VSS where the service is
\* not running; whatever the outcome, and on an exception, the function
\* goes on.
CheckVssService ==
    /\ scpc = "service"
    /\ \E cmds \in { <<>>, <<"sc query">>, <<"sc query", "sc start">>,
                     <<"sc query", "sc start", "net start">> } :
         scCmds' = cmds
    /\ scpc' = "powershell"
    /\ UNCHANGED <<scPs, scVss, scRet, scCalls>>
    /\ UNCHANGED nonScVars

\* The PowerShell attempt.
CreateByPowerShell ==
    /\ scpc = "powershell"
    /\ \E run \in PowerShellCreateRuns :
         /\ scPs' = run
         /\ scCmds' = Append(scCmds, "powershell")
         /\ IF PowerShellSucceeded(run)
            THEN scpc' = "done" /\ scRet' = PowerShellShadowId(run)
            ELSE scpc' = AfterPowerShellFailure /\ UNCHANGED scRet
    /\ UNCHANGED <<scVss, scCalls>>
    /\ UNCHANGED nonScVars

\* The vssadmin attempt; after a failing exit code the four diagnostic
\* commands are run.
CreateByVssadmin ==
    /\ scpc = "vssadmin"
    /\ \E run \in VssadminCreateRuns :
         /\ scVss' = run
         /\ scpc' = "done"
         /\ IF run.raised
            THEN scCmds' = Append(scCmds, "vssadmin") /\ scRet' = NoShadowId
            ELSE IF run.rc # 0
            THEN /\ scCmds' = scCmds \o <<"vssadmin", "diagnostics">>
                 /\ scRet' = NoShadowId
            ELSE /\ scCmds' = Append(scCmds, "vssadmin")
                 /\ scRet' = SearchShadowId(run.stdout)
    /\ UNCHANGED <<scPs, scCalls>>
    /\ UNCHANGED nonScVars

NextShadowCreate ==
    \/ StartCreateVssShadowCopy
    \/ CheckVssService
    \/ CreateByPowerShell
    \/ CreateByVssadmin


(***************************************************************************)
(* STEP 4 of generalize_worker: the PowerShell script that disables        *)
(* BitLocker and waits for the decryption, run through run_powershell,     *)
(* which reads the script's output to its end and then waits for it.       *)
(***************************************************************************)
Volumes == 1..MaxVolumes
VolumeStatuses ==
    {"FullyDecrypted", "FullyEncrypted", "EncryptionInProgress", "DecryptionInProgress"}

\* $encryptedVolumes = Get-BitLockerVolume | Where-Object { $_.VolumeStatus -ne 'FullyDecrypted' }
EncryptedVolumes(st) == {v \in Volumes : st[v] # "FullyDecrypted"}

\* (Get-BitLockerVolume | Where-Object { $_.VolumeStatus -eq 'DecryptionInProgress' }).Count -gt 0
DecryptionPending(st) == Cardinality({v \in Volumes : st[v] = "DecryptionInProgress"}) > 0

InitBitLocker ==
    /\ bpc = "idle"
    /\ volStatus = [v \in Volumes |-> "FullyDecrypted"]
    /\ toDisable = {}
    /\ polls = 0

\* The worker reaches STEP 4 and the script reads the volumes.
StartDisableBitLocker ==
    /\ bpc \in {"idle", "returned"}
    /\ \E st \in [Volumes -> VolumeStatuses] :
          /\ volStatus' = st
          /\ toDisable' = EncryptedVolumes(st)
          /\ bpc' = IF EncryptedVolumes(st) # {} THEN "disable" ELSE "returned"
    /\ polls' = 0
    /\ UNCHANGED nonBlVars

\* Disable-BitLocker on the next volume of $encryptedVolumes; a failure is
\* caught and written as a warning.
DisableVolume ==
    /\ bpc = "disable"
    /\ \E v \in toDisable : \E ok \in BOOLEAN :
          /\ toDisable' = toDisable \ {v}
          /\ volStatus' = IF ok
                          THEN [volStatus EXCEPT ![v] = "DecryptionInProgress"]
                          ELSE volStatus
          /\ bpc' = IF toDisable \ {v} = {} THEN "wait" ELSE "disable"
    /\ UNCHANGED polls
    /\ UNCHANGED nonBlVars

\* One evaluation of the while condition: the script enters the loop body,
\* or leaves the loop and ends.  The count of polls is kept up to MaxPolls.
PollDecryption ==
    /\ bpc = "wait"
    /\ IF DecryptionPending(volStatus)
       THEN /\ polls' = IF polls < MaxPolls THEN polls + 1 ELSE polls
            /\ bpc' = "sleep"
       ELSE /\ polls' = polls
            /\ bpc' = "returned"
    /\ UNCHANGED <<volStatus, toDisable>>
    /\ UNCHANGED nonBlVars

\* The loop body: Write-Host and Start-Sleep -Seconds 10, then the condition
\* is evaluated again.
SleepTenSeconds ==
    /\ bpc = "sleep"
    /\ bpc' = "wait"
    /\ UNCHANGED <<volStatus, toDisable, polls>>
    /\ UNCHANGED nonBlVars

\* The operating system finishes the decryption of a volume.
DecryptionCompletes ==
    /\ bpc \in {"disable", "wait", "sleep"}
    /\ \E v \in Volumes :
          /\ volStatus[v] = "DecryptionInProgress"
          /\ volStatus' = [volStatus EXCEPT ![v] = "FullyDecrypted"]
    /\ UNCHANGED <<bpc, toDisable, polls>>
    /\ UNCHANGED nonBlVars

NextBitLocker ==
    \/ StartDisableBitLocker
    \/ DisableVolume
    \/ PollDecryption
    \/ SleepTenSeconds
    \/ DecryptionCompletes

\* The script runs on; the operating system owes no progress.
BitLockerScript ==
    StartDisableBitLocker \/ DisableVolume \/ PollDecryption \/ SleepTenSeconds

Init == InitGen /\ InitVhd /\ InitRepo /\ InitVss /\ InitShadowPath /\ InitPipelines /\ InitCapture /\ InitLocation /\ InitShadowCreate /\ InitBitLocker

SpecGen == Init /\ [][NextGen]_vars

SpecVhd == Init /\ [][NextVhd]_vars

SpecVhdCalls == Init /\ [][NextVhdCalls]_vars

InitWithRepository == InitGen /\ InitVhd /\ InitRepoAny /\ InitVss /\ InitShadowPath /\ InitPipelines /\ InitCapture /\ InitLocation /\ InitShadowCreate /\ InitBitLocker

SpecRepo == InitWithRepository /\ [][NextRepo]_vars

InitWithDrives == InitGen /\ InitVhd /\ InitRepo /\ InitVssAny /\ InitShadowPath /\ InitPipelines /\ InitCapture /\ InitLocation /\ InitShadowCreate /\ InitBitLocker

SpecVss == InitWithDrives /\ [][NextVss]_vars

SpecShadowPath == Init /\ [][NextShadowPath]_vars

SpecPipelines == Init /\ [][NextPipelines]_vars

SpecRunner == Init /\ [][NextRunner]_vars

SpecRunnerFair == Init /\ [][NextRunner]_vars /\ FairRunner

SpecLocation == Init /\ [][NextLocation]_vars

SpecShadowCreate == Init /\ [][NextShadowCreate]_vars

SpecBitLocker == Init /\ [][NextBitLocker]_vars
SpecBitLockerFair == Init /\ [][NextBitLocker]_vars /\ WF_vars(BitLockerScript)

(***************************************************************************)
(* Claims about the generalization loop and its confirmation dialogs.      *)
(***************************************************************************)
WorkerStarted ==
    gpc \in {"pre", "clear", "sysprep", "settle", "scan", "remove", "done", "shutdown"}

\* C2: the loop never runs the generalize command more than MaxAttempts = 10
\* times, and a worker in which every generalize run returned, every scan
\* found a blocker and every removal succeeded ends after exactly 10
\* iterations in the max-attempts-reached outcome.
C2_AttemptsBounded ==
    /\ sysprepRuns <= MaxAttempts
    /\ (gpc = "done" /\ sysprepRuns > 0 /\ removalsOk = sysprepRuns)
          => /\ sysprepRuns = MaxAttempts
             /\ attempt = MaxAttempts
             /\ outcome = "MaxAttemptsReached"

C2_Witness ==
    /\ gpc = "done"
    /\ outcome = "MaxAttemptsReached"
    /\ sysprepRuns = MaxAttempts
    /\ removalsOk = MaxAttempts

\* C3: a scan that finds zero blocker names ends the loop in that iteration
\* with the no-blockers-found outcome: as many generalize runs as iterations
\* so far, no removal command in this iteration, and nothing runs afterwards.
C3_NoBlockersStops ==
    (scanRuns > 0 /\ blockers = {})
        => /\ gpc = "done"
           /\ outcome = "NoBlockersFound"
           /\ sysprepRuns = attempt
           /\ scanRuns = attempt
           /\ removalRuns = attempt - 1

C3_Witness ==
    /\ outcome = "NoBlockersFound"
    /\ attempt = 1
    /\ sysprepRuns = 1
    /\ removalRuns = 0

\* C4: when the removal command reports failure the loop stops at once: the
\* generalize command has run once per iteration so far and is not run again.
C4_RemovalFailureStops ==
    (removalRuns > 0 /\ ~removalOk)
        => /\ gpc = "done"
           /\ outcome = "RemovalFailed"
           /\ sysprepRuns = attempt
           /\ removalRuns = attempt

C4_Witness ==
    /\ outcome = "RemovalFailed"
    /\ attempt = 3
    /\ sysprepRuns = 3

\* C5: outside audit mode the worker starts only after the operator answered
\* yes to the warning and confirmed with the phrase typed in the
\* final-confirmation window (compared after strip and upper).
C5_TypedConfirmation ==
    (WorkerStarted /\ ~isAudit)
        => /\ warnYes
           /\ confirmed
           /\ Upper(Strip(entryText)) = Phrase

C5_Witness ==
    /\ gpc = "pre"
    /\ ~isAudit
    /\ entryText = <<" ", "i", " ", "R">>

(***************************************************************************)
(* Claims about the virtual-disk pipelines.                                *)
(***************************************************************************)
\* C1: when perform_vhdx_creation_workflow or restore_repository_to_vhdx
\* returns, a detach has been attempted after the last attach the run made,
\* whatever the outcome of its stages.
C1_DetachedOnReturn ==
    vpc \in {"r_done", "c_done"} => ~disk.pendingAttach

\* C9: mount_vhdx on a disk that was never partitioned, and a partitioning
\* method on a disk that does not exist, is attached or is already
\* partitioned, fail without starting the external tool.
C9_StateContract ==
    /\ (lastCall.op = "mount_vhdx" /\ lastCall.preParts = 0)
          => (~lastCall.ranTool /\ ~lastCall.ok)
    /\ (/\ lastCall.op \in {"mount_and_partition_vhdx", "initialize_vhdx_gpt"}
        /\ (~lastCall.preExists \/ lastCall.preAttached \/ lastCall.preParts > 0))
          => (~lastCall.ranTool /\ ~lastCall.ok)

\* C10: a partitioning script that ran to its end has created exactly the
\* partitions EFI, Recovery, OS in that order, the OS partition taking the
\* remainder, and all such scripts made the EFI partition of one size.
C10_ThreePartitions ==
    (lastCall.op \in {"mount_and_partition_vhdx", "initialize_vhdx_gpt"} /\ lastCall.ok)
        => /\ Roles(lastCall.made) = <<"EFI", "Recovery", "OS">>
           /\ lastCall.made[3].rest
           /\ Cardinality(efiSizes) <= 1


(***************************************************************************)
(* Claims about the repository secret.                                     *)
(***************************************************************************)
\* C6: a secret generated because none was stored is in the hands of the
\* caller (it is the function's RESTIC_PASSWORD) only once the operator has
\* acknowledged the password reminder window.
C6_AcknowledgedBeforeReturn == env.src = "generated" => reminder = "acked"

\* C7: once init has reported an existing repository, every verification
\* and backup command of the run carries the secret the operator entered in
\* the latest confirmation prompt of the run, and after a cancelled prompt
\* the run has ended with failure and has issued no further command.
C7_EnteredSecretAfterExisting ==
    /\ \A i \in DOMAIN cmdLog :
          (cmdLog[i].ai /\ cmdLog[i].cmd \in {"snapshots", "backup"})
              => /\ cmdLog[i].src = "entered"
                 /\ cmdLog[i].pw = cmdLog[i].entered
                 /\ cmdLog[i].pw # NoSecret
    /\ cancelLen # -1 => (Len(cmdLog) = cancelLen /\ rpc = "done" /\ rresult = "False")

\* A run whose init found the repository, whose operator entered a secret
\* other than the stored one, and which went on to the backup command.
C7_Witness ==
    \E i \in DOMAIN cmdLog :
        /\ cmdLog[i].cmd = "backup"
        /\ cmdLog[i].ai
        /\ cmdLog[i].pw # storedPw
        /\ storedPw # NoSecret

(***************************************************************************)
(* Claims about the drive mappings.                                        *)
(***************************************************************************)
\* What the latest create call made and is still there.
RemainingSubsts == madeSubsts \cap substs
RemainingDirs == madeDirs \cap tempDirs

\* C8: when create_vss_drive_mapping has returned None, no substitution and
\* no junction or temporary directory it made remains; when it has returned
\* a mapping, that mapping is all that remains of what it made; and
\* remove_vss_drive_mapping given the returned path runs its removal
\* command on that mapping.
C8_ReleasedExactlyOnce ==
    /\ (mapState = "returned" /\ mapRet = NoMapping)
          => (RemainingSubsts = {} /\ RemainingDirs = {})
    /\ (mapState = "returned" /\ mapRet # NoMapping)
          => \E l \in LetterSet :
                \/ mapRet = DrivePath(l) /\ RemainingSubsts = {l} /\ RemainingDirs = {}
                \/ mapRet = JunctionPath(l) /\ RemainingSubsts = {} /\ RemainingDirs = {l}
    /\ (mapState = "removed" /\ mapRet # NoMapping)
          => \E l \in LetterSet, i \in DOMAIN rmCmds :
                /\ rmCmds[i].target = l
                /\ \/ mapRet = DrivePath(l) /\ rmCmds[i].tool = "subst /D"
                   \/ mapRet = JunctionPath(l) /\ rmCmds[i].tool = "rmdir"

(***************************************************************************)
(* Claims about the stages of the virtual-disk workflows.                  *)
(***************************************************************************)
\* C11: a workflow that restored repository content into the OS partition
\* and returned success has invoked a boot-data rebuild after the restore,
\* and before the detach if it detached.
C11_BootRebuiltAfterRestore ==
    (/\ vpc \in {"r_done", "c_done"}
     /\ vresult \in {"True", "path"}
     /\ \E i \in DOMAIN vstages : vstages[i] = "restore")
        => \E i, j \in DOMAIN vstages :
              /\ i < j
              /\ vstages[i] = "restore"
              /\ vstages[j] = "rebuild_boot"
              /\ \A k \in DOMAIN vstages : vstages[k] = "unmount" => j < k

(***************************************************************************)
(* Claims about get_vss_shadow_path.                                       *)
(***************************************************************************)
PollLimit == 1 + VssadminAttempts

\* C13: polls are made one after another; no poll follows a poll in which
\* the backend gave the path, the call that got the path returns it, and a
\* call that never got it returns None after PollLimit polls.
C13_FirstReadyPollReturns ==
    /\ Len(shPolls) <= PollLimit
    /\ \A i \in 1..(Len(shPolls) - 1) : ~shPolls[i]
    /\ shpc \in {"powershell", "vssadmin"} => \A i \in DOMAIN shPolls : ~shPolls[i]
    /\ (shpc = "done" /\ shPolls[Len(shPolls)]) => shRet = DevicePath
    /\ (shpc = "done" /\ ~shPolls[Len(shPolls)])
          => (shRet = NoPath /\ Len(shPolls) = PollLimit)

\* Not ready on polls 1 and 2, ready on poll 3: returned after 3 polls.
C13_Witness == shpc = "done" /\ shPolls = <<FALSE, FALSE, TRUE>> /\ shRet = DevicePath

(***************************************************************************)
(* Claims about the pipeline workers and the backup tags.                  *)
(***************************************************************************)
\* C12: at no time are two workers of the same pipeline running.
C12_OneWorkerPerPipeline ==
    \A kind \in {"dev", "vss", "vhdx"} : Cardinality(RunningOf(kind)) <= 1

\* C17: every backup command carries a tag list built by the run that
\* starts it, and no two backup commands carry the same backup-uuid.
C17_TagsOfOwnRun ==
    /\ \A c \in invoked : c.uuid # NoTags /\ builtBy[c.uuid] = c.worker
    /\ \A c1, c2 \in invoked : c1.uuid = c2.uuid => c1 = c2

(***************************************************************************)
(* Claims about the streaming runners.                                     *)
(***************************************************************************)
\* C14: a capture during which the tool wrote a critical line, on either
\* stream, ends with failure through the critical-line branch, whatever the
\* exit code; a capture without such a line never ends through that branch.
C14_CriticalLineFails ==
    (cmode = "capture" /\ cpc = "done")
        => /\ criticalOn # {} => (cresult = "False" /\ chow = "critical")
           /\ criticalOn = {} => chow # "critical"

\* C20: while the child and the threads of the runner keep running, a child
\* waiting on a full pipe gets to write and the runner leaves its streaming
\* loop for good; and a runner that returns on the exit code returns on the
\* one the child ended with.
C20_StreamsDrained ==
    /\ [](chow = "exit_code"
            => /\ child = "exited"
               /\ cresult = "True" => childRc = 0
               /\ cmode = "merged" => (cresult = "True" <=> childRc = 0))
    /\ <>[](~ChildBlocked /\ cpc # "stream")

\* The child of capture_with_dism waits on a full stderr pipe.
C20_Witness == cmode = "capture" /\ ChildBlocked /\ pending.stream = "err"


C18_BothMechanismsBeforeNone ==
    scpc = "done"
        => /\ scRet = NoShadowId
                => /\ HasPiece(scCmds, "powershell")
                   /\ scCmds[Len(scCmds)] \in {"vssadmin", "diagnostics"}
                   /\ scVss # NoRun
           /\ (scPs.rc = 0 /\ HasPiece(scPs.stdout, SuccessMarker))
                => /\ scRet = ShadowId(StripPieces(AfterPiece(scPs.stdout, SuccessMarker)))
                   /\ ~HasPiece(scCmds, "vssadmin")
                   /\ scVss = NoRun

\* The PowerShell attempt failed, vssadmin was run and failed too.
C18_Witness ==
    /\ scpc = "done"
    /\ scRet = NoShadowId
    /\ scPs.rc = 1
    /\ scVss.rc = 1


\* C19: a call of create_vss_drive_mapping that found a free letter and
\* returned None has run the substitution and, last, the junction; a call
\* that returned a drive has not gone on to the junction.
C19_BothStrategiesBeforeFailure ==
    (mapCalls > 0 /\ mapTried # <<>>)
        => /\ mapTried[1] = "subst"
           /\ mapRet = NoMapping => mapTried[Len(mapTried)] = "junction"
           /\ LooksLikeDrive(mapRet) => mapTried[Len(mapTried)] # "junction"


\* C21: the decryption wait of STEP 4 is bounded: a wait that has begun ends
\* (the script returns to generalize_worker) although a volume may stay in
\* the decryption-in-progress state forever.
C21_DecryptionWaitEnds == (bpc \in {"wait", "sleep"}) ~> (bpc = "returned")


\* C23: capture_with_dism never terminates a tool that is still running and
\* has written no snapshot-expired marker: elapsed time or silence alone
\* does not end the child.
C23_NoTerminationWithoutMarker ==
    (cmode = "capture" /\ child = "killed") => criticalOn # {}


\* C24: the generalize command runs only after the answer file was written,
\* and never after writing it failed; the worker reaches the generalize
\* command only from clearing the logs, the settle wait only from the
\* generalize command and the scan only from the settle wait, so every
\* generalize invocation, the first and every later one, directly follows a
\* clearing of the logs.
C24_StepOrder ==
    /\ [](sysprepRuns > 0 => answerFile = "written")
    /\ [](answerFile = "failed" => sysprepRuns = 0 /\ ~WorkerRunning)
    /\ [][/\ sysprepRuns' > sysprepRuns => gpc = "sysprep"
          /\ scanRuns' > scanRuns => gpc = "scan"
          /\ (gpc' # gpc /\ gpc' = "clear") => gpc \in {"pre", "remove"}
          /\ (gpc' # gpc /\ gpc' = "sysprep") => gpc = "clear"
          /\ (gpc' # gpc /\ gpc' = "settle") => gpc = "sysprep"
          /\ (gpc' # gpc /\ gpc' = "scan") => gpc = "settle"]_vars

C24_Witness ==
    /\ gpc = "scan"
    /\ attempt = 2
    /\ sysprepRuns = 2
    /\ scanRuns = 1
    /\ answerFile = "written"


\* C30: at most one generalize_worker runs at any time: while a worker runs
\* the control is disabled and a click that would start another run is not
\* taken; a worker that has left through any of its exit paths (answer file
\* not writable, no blockers, removal failed, max attempts, exception) has
\* re-enabled the control, so that a later run can be started.
C30_OneWorkerAtATime ==
    /\ WorkerRunning => (genButton = "disabled" /\ ~ENABLED StartGeneralization)
    /\ gpc = "done"
          => /\ outcome \in {"UnattendFailed", "NoBlockersFound", "RemovalFailed",
                             "MaxAttemptsReached", "Exception"}
             /\ genButton = "normal"
             /\ ENABLED StartGeneralization

C30_Witness ==
    /\ gpc = "done"
    /\ outcome = "RemovalFailed"
    /\ attempt = 2
    /\ genButton = "normal"


CreationStages == <<"create", "partition", "restore", "unmount", "vm">>

InCreation == vpc \in {"c_create", "c_partition", "c_restore", "c_unmount", "c_vm", "c_done"}

Invoked(stage) == \E i \in DOMAIN vstages : vstages[i] = stage

\* C25: perform_vhdx_creation_workflow invokes its stages in the order create
\* disk, attach-and-partition, restore, unmount, create VM, each at most
\* once; a stage runs only if the stage it depends on succeeded; a failed
\* unmount does not stop VM creation; the workflow returns True exactly when
\* create, partition, restore and VM creation all ran and succeeded.
C25_StagesInOrder ==
    InCreation =>
        /\ Len(vstages) <= Len(CreationStages)
        /\ vstages = SubSeq(CreationStages, 1, Len(vstages))
        /\ Invoked("partition") => "create" \notin vfailed
        /\ Invoked("restore") => "partition" \notin vfailed
        /\ Invoked("unmount") => "restore" \notin vfailed
        /\ Invoked("vm") => "restore" \notin vfailed
        /\ (vpc = "c_done" /\ Invoked("unmount")) => Invoked("vm")
        /\ vpc = "c_done" =>
              /\ vresult \in {"True", "False"}
              /\ vresult = "True" <=>
                    /\ vstages = CreationStages
                    /\ vfailed \cap {"create", "partition", "restore", "vm"} = {}

C25_Witness ==
    /\ vpc = "c_done"
    /\ vresult = "True"
    /\ vfailed = {"unmount"}


RestoreStages == <<"create", "initialize", "mount", "restore">>

\* C27: restore_repository_to_vhdx returns the path of the disk whenever its
\* create, initialize, mount and restore stages all succeeded, and None only
\* when one of them failed; the unmount call of its cleanup does not change
\* the outcome.
C27_PathWhenStagesSucceed ==
    vpc = "r_done" =>
        (vresult = "path" <=>
            /\ Len(vstages) >= Len(RestoreStages)
            /\ SubSeq(vstages, 1, Len(RestoreStages)) = RestoreStages
            /\ vfailed \cap {"create", "initialize", "mount", "restore"} = {})


\* C22: whenever the call of restore_repository_to_vhdx did not produce a
\* restored disk, the restore dialog ends in restore_failed and never in
\* restore_complete.
C22_FailureReachesDialog ==
    (vpc \in {"restore_complete", "restore_failed"} /\ vresult # "path")
        => vpc = "restore_failed"


BackupInvoked == \E i \in DOMAIN cmdLog : cmdLog[i].cmd = "backup"

SecretRejected == \E i \in DOMAIN cmdLog : cmdLog[i].cmd = "snapshots" /\ cmdLog[i].rc # 0

\* C26: in a run of perform_restic_backup or create_vss_restic_backup in
\* which the verification of the re-entered secret failed, init failed for a
\* reason other than "already initialized", the location could not be built
\* or no secret could be obtained, the backup command is never invoked, and
\* the run ends with the result False.
C26_NoBackupAfterFailure ==
    /\ SecretRejected => failure = "rejected"
    /\ failure \in {"rejected", "init_failed", "no_location", "no_secret"}
          => /\ ~BackupInvoked
             /\ rpc = "done"
             /\ rresult = "False"

C26_Witness ==
    /\ chained
    /\ failure = "rejected"
    /\ Len(cmdLog) = 4
    /\ cmdLog[1].rc = 1


CreatedByInitHere ==
    \E i \in DOMAIN cmdLog : cmdLog[i].cmd = "init" /\ cmdLog[i].rc = 0

\* C28: in one run of create_vss_restic_backup the operator is asked to
\* re-enter the repository secret at most once, and not at all when the
\* repository was created by an init command earlier in the same run.
C28_AskedAtMostOnce ==
    chained =>
        /\ prompts <= 1
        /\ CreatedByInitHere => prompts = 0

\* C29: after a successful backup run the secret stored for the scope is
\* the secret of the repository at the scope's location.
C29_StoredSecretOpensRepository ==
    (rpc = "done" /\ rresult = "True") => storedPw = repoPw

=============================================================================
